---- MODULE Spec2Model ----
(***************************************************************************)
(* Model of the plan execution engine of my-cursor: the path sandbox       *)
(* (engine/sanitize.ts), the executor executePlan (engine/executor.ts,     *)
(* stored in src/client/src/ui/chatView.ts lines 540-750) and the Plan     *)
(* data it interprets (engine/plan.ts).                                    *)
(*                                                                         *)
(* Representation.  A string is a sequence of one-character strings.  A    *)
(* relative path is a record [abs, segs]: abs says whether the string      *)
(* starts with "/", segs are its "/"-separated segments.  An absolute,     *)
(* resolved path (fsPath) is the sequence of its segment names, and        *)
(* Render gives back its characters so that String.startsWith is computed  *)
(* on characters, as the code does.  An optional field of a step is a      *)
(* sequence of length 0 (undefined) or 1 (the value).                      *)
(***************************************************************************)
EXTENDS Integers, Sequences, FiniteSets, TLC

\* Longest Plan (number of steps) the model executes.
MaxSteps == 2

None == <<>>
Some(v) == <<v>>

------------------------------------------------------------------------------
(* Names, relative paths and contents used as inputs *)

UP == <<".", ".">>
DOT == <<".">>
nW == <<"w">>
nWX == <<"w", "x">>
nA == <<"a">>
nD == <<"d">>
nB == <<"b">>
nO == <<"o">>
nE == <<"e">>

Rel(segs) == [abs |-> FALSE, segs |-> segs]

pDot == Rel(<<DOT>>)
pA == Rel(<<nA>>)
pD == Rel(<<nD>>)
pDB == Rel(<<nD, nB>>)
pUpO == Rel(<<UP, nO>>)
pSibE == Rel(<<UP, nWX, nE>>)
pUp == Rel(<<UP>>)
\* The absolute path "/o".
pAbsO == [abs |-> TRUE, segs |-> <<nO>>]

\* The workspace folder's fsPath, "/w".
WorkspaceFolder == <<nW>>

cFoo == <<"f", "o", "o">>
cX == <<"X">>
cY == <<"Y">>

\* The filesystem before the run: the workspace folder holds the file a.
InitDirs == {<<>>, <<nW>>}
InitFiles == [p \in {<<nW, nA>>} |-> cFoo]

------------------------------------------------------------------------------
(* Path sandbox: engine/sanitize.ts *)

RECURSIVE Normalize(_, _)
\* path.resolve's normalisation: "." is dropped, ".." removes the last
\* segment (and stays at "/" when there is none), a name is appended.
Normalize(base, segs) ==
  IF segs = <<>> THEN base
  ELSE LET s == Head(segs) IN
       Normalize(IF s = DOT THEN base
                 ELSE IF s = UP THEN SubSeq(base, 1, Len(base) - 1)
                 ELSE Append(base, s),
                 Tail(segs))

\* path.resolve(rootFsPath, rel): an absolute rel replaces the root.
Resolve(rootFsPath, rel) ==
  Normalize(IF rel.abs THEN <<>> ELSE rootFsPath, rel.segs)

RECURSIVE Render(_)
\* The characters of an fsPath: "/" for the filesystem root, else "/seg" per segment.
Render(fsPath) ==
  IF fsPath = <<>> THEN <<"/">>
  ELSE IF Len(fsPath) = 1 THEN <<"/">> \o fsPath[1]
  ELSE Render(SubSeq(fsPath, 1, Len(fsPath) - 1)) \o <<"/">> \o fsPath[Len(fsPath)]

\* String.prototype.startsWith
StartsWith(s, prefix) ==
  /\ Len(prefix) <= Len(s)
  /\ SubSeq(s, 1, Len(prefix)) = prefix

\* withinWorkspace(root, rel): ok = FALSE stands for the thrown
\* "Blocked path outside workspace" error, target is the returned Uri's fsPath.
withinWorkspace(rootFsPath, rel) ==
  LET targetFsPath == Resolve(rootFsPath, rel) IN
  [root |-> rootFsPath,
   target |-> targetFsPath,
   ok |-> StartsWith(Render(targetFsPath), Render(rootFsPath))]

------------------------------------------------------------------------------
(* Plans: engine/plan.ts *)

\* A step of a Plan (PlanAction).  Every step carries every field; a field
\* the action does not have, or that the Plan leaves out, is None.
Step(action, path, content, find, replace, cmd, cwd, packages, dev) ==
  [action |-> action, path |-> path, content |-> content, find |-> find,
   replace |-> replace, cmd |-> cmd, cwd |-> cwd, packages |-> packages,
   dev |-> dev]

Mkdir(path) == Step("mkdir", path, None, None, None, None, None, None, FALSE)
Write(path, content) == Step("write", path, content, None, None, None, None, None, FALSE)
AppendTo(path, content) == Step("append", path, content, None, None, None, None, None, FALSE)
Edit(path, find, replace) == Step("edit", path, None, find, replace, None, None, None, FALSE)
Shell(cmd, cwd) == Step("shell", None, None, None, None, cmd, cwd, None, FALSE)
Install(packages, dev, cwd) == Step("install", None, None, None, None, None, cwd, packages, dev)
Other(action) == Step(action, None, None, None, None, None, None, None, FALSE)

\* The six actions coerceJsonToPlan lets through.
KnownActions == {"mkdir", "write", "append", "edit", "shell", "install"}

\* The steps Plans are built from.
Steps ==
  { Mkdir(Some(pD)), Mkdir(Some(pUpO)),
    Write(Some(pA), Some(cX)), Write(Some(pDB), None), Write(None, Some(cX)),
    Write(Some(pAbsO), Some(cX)), Write(Some(pSibE), Some(cX)),
    AppendTo(Some(pA), Some(cY)),
    Edit(Some(pA), Some(<<"o">>), Some(cX)), Edit(Some(pDB), Some(<<"o">>), None),
    Edit(Some(pA), None, Some(cX)), Edit(Some(pA), Some(<<"/", "(", "/">>), Some(cX)),
    Edit(Some(pUpO), Some(<<"o">>), Some(cX)),
    Shell(Some("make"), None), Shell(None, None), Shell(Some("make"), Some(pUpO)),
    Install(Some(<<"pkg">>), FALSE, Some(pD)), Install(None, FALSE, Some(pUpO)),
    Other("delete") }

\* Plan.root values: absent (defaults to "."), the subfolder d, and the
\* parent of the workspace folder.
PlanRoots == {None, Some(pD), Some(pUp)}

\* The Plan with root r and the steps st.
PlanOf(r, st) == [goal |-> "g", root |-> r, steps |-> st]

------------------------------------------------------------------------------
(* The workspace filesystem (vscode.workspace.fs), as executor.ts uses it *)

Prefixes(p) == {SubSeq(p, 1, n) : n \in 0..Len(p)}

\* path.dirname of an fsPath; dirname("/") is "/".
Dirname(p) == SubSeq(p, 1, Len(p) - 1)

\* fs.createDirectory(p): creates p and its missing parents; fails when a
\* file stands at p or at one of its parents.
createDirectory(fs, p) ==
  IF \E q \in Prefixes(p) : q \in DOMAIN fs.files
  THEN [ok |-> FALSE, fs |-> fs]
  ELSE [ok |-> TRUE, fs |-> [fs EXCEPT !.dirs = @ \cup Prefixes(p)]]

\* ensureDir: createDirectory with every error swallowed.
ensureDir(fs, p) == createDirectory(fs, p).fs

\* fs.writeFile(p, c): fails when p is a directory or its parent is none.
writeFile(fs, p, c) ==
  IF p \in fs.dirs \/ Dirname(p) \notin fs.dirs \/ p = <<>>
  THEN [ok |-> FALSE, fs |-> fs]
  ELSE [ok |-> TRUE,
        fs |-> [fs EXCEPT !.files =
                  [q \in (DOMAIN fs.files) \cup {p} |-> IF q = p THEN c ELSE fs.files[q]]]]

\* readFile(uri): the file's text, or a failure when there is no file at p.
readFile(fs, p) ==
  IF p \in DOMAIN fs.files
  THEN [ok |-> TRUE, data |-> fs.files[p]]
  ELSE [ok |-> FALSE, data |-> <<>>]

------------------------------------------------------------------------------
(* String operations safeEdit relies on (executor.ts, safeEdit) *)

\* String.prototype.endsWith
EndsWith(s, suffix) ==
  /\ Len(suffix) <= Len(s)
  /\ SubSeq(s, Len(s) - Len(suffix) + 1, Len(s)) = suffix

\* String.prototype.lastIndexOf for one character, as a 1-based position (0: none).
LastIndexOf(s, ch) ==
  IF \E k \in 1..Len(s) : s[k] = ch
  THEN CHOOSE k \in 1..Len(s) : s[k] = ch /\ \A j \in (k + 1)..Len(s) : s[j] # ch
  ELSE 0

\* Case folding of the "i" flag, on the letters the model uses.
Fold(ch) ==
  IF ch = "F" THEN "f" ELSE IF ch = "O" THEN "o" ELSE IF ch = "X" THEN "x"
  ELSE IF ch = "Y" THEN "y" ELSE ch

\* pat occurs in s at position k (ci: ignoring case).
OccursAt(s, pat, k, ci) ==
  /\ k >= 1
  /\ k + Len(pat) - 1 <= Len(s)
  /\ \A j \in 1..Len(pat) :
       IF ci THEN Fold(s[k + j - 1]) = Fold(pat[j]) ELSE s[k + j - 1] = pat[j]

\* The first position from `from` on at which pat occurs in s, or 0.
IndexFrom(s, pat, from, ci) ==
  LET hits == {k \in from..(Len(s) + 1) : OccursAt(s, pat, k, ci)} IN
  IF hits = {} THEN 0 ELSE CHOOSE k \in hits : \A h \in hits : k <= h

RECURSIVE Interleave(_, _)
\* s.split("").join(sep): sep between every two characters of s.
Interleave(s, sep) ==
  IF Len(s) <= 1 THEN s
  ELSE <<Head(s)>> \o sep \o Interleave(Tail(s), sep)

RECURSIVE ReplaceEvery(_, _, _, _)
\* Every non-overlapping occurrence of the non-empty pat in s, left to right, becomes repl.
ReplaceEvery(s, pat, repl, ci) ==
  LET k == IndexFrom(s, pat, 1, ci) IN
  IF k = 0 THEN s
  ELSE SubSeq(s, 1, k - 1) \o repl
       \o ReplaceEvery(SubSeq(s, k + Len(pat), Len(s)), pat, repl, ci)

\* data.split(find).join(replace)
SplitJoin(data, find, replace) ==
  IF find = <<>> THEN Interleave(data, replace)
  ELSE ReplaceEvery(data, find, replace, FALSE)

\* new RegExp(body, flags) throws a SyntaxError: an unclosed group in the
\* body, an unknown flag or a repeated flag.
RegExpInvalid(body, flags) ==
  \/ \E k \in 1..Len(body) : body[k] = "("
  \/ \E k \in 1..Len(flags) : flags[k] \notin {"g", "i"}
  \/ \E j, k \in 1..Len(flags) : j # k /\ flags[j] = flags[k]

\* data.replace(new RegExp(body, flags), replace), for a body of literal
\* characters: the first match only, unless flags holds "g".
RegExpReplace(data, body, flags, replace) ==
  LET ci == \E k \in 1..Len(flags) : flags[k] = "i"
      global == \E k \in 1..Len(flags) : flags[k] = "g"
      k == IndexFrom(data, body, 1, ci)
  IN IF body = <<>>
     THEN IF global /\ data # <<>>
          THEN replace \o Interleave(data, replace) \o replace
          ELSE replace \o data
     ELSE IF global THEN ReplaceEvery(data, body, replace, ci)
     ELSE IF k = 0 THEN data
     ELSE SubSeq(data, 1, k - 1) \o replace \o SubSeq(data, k + Len(body), Len(data))

\* The text safeEdit computes from the file's data: err = TRUE stands for
\* the SyntaxError new RegExp throws.
EditedText(data, find, replace) ==
  IF find # <<>> /\ StartsWith(find, <<"/">>) /\ EndsWith(find, <<"/">>)
  THEN LET last == LastIndexOf(find, "/")
           body == SubSeq(find, 2, last - 1)
           flags == SubSeq(find, last + 1, Len(find))
       IN IF RegExpInvalid(body, flags)
          THEN [err |-> TRUE, out |-> data]
          ELSE [err |-> FALSE, out |-> RegExpReplace(data, body, flags, replace)]
  ELSE [err |-> FALSE, out |-> SplitJoin(data, find, replace)]

------------------------------------------------------------------------------
(* The executor: engine/executor.ts, executePlan *)

VARIABLES
  cfg,           \* getCfg(): [dryRun, allowShell, allowInstall]
  trusted,       \* vscode.workspace.isTrusted
  fs,            \* the filesystem: [files: fsPath -> text, dirs: set of fsPath]
  spawned,       \* the subprocesses exec has started, in order: [cmd, cwd]
  pc,            \* "idle", "running", "done" (returned) or "aborted" (threw)
  plan,          \* the Plan executePlan was called with
  root,          \* the resolved Plan root (fsPath)
  i,             \* number of steps the loop has gone through (0-based index of the next)
  results,       \* the Results pushed so far
  executed,      \* 1-based indices of the steps dispatched, in dispatch order
  abortError,    \* message of the error executePlan threw ("" if none)
  sandboxCalls   \* the withinWorkspace calls of the latest action, with their outcome

\* extension.ts: the module's state and the onMessage invocations under way.
VARIABLES
  settings,           \* getExtCfg(): [autoRun, autoRepair, maxRepairAttempts]
  lastPlan,           \* let lastPlan: Plan | null
  lastFailuresBrief,  \* let lastFailuresBrief: the lines of the brief (<<>>: null)
  revertStore,        \* const revertStore: plan id -> RevertRecord
  hd,                 \* the onMessage invocations: where each stands, with its locals
  received,           \* number of messages the webview has sent
  opsRunning,         \* what the webview was last told by post({type: "ops", running})
  revertNote,         \* what revertPlan last posted: the count of reverted files, or an error
  opLog               \* the runs and reverts completed so far, in order

execVars == <<pc, plan, root, i, results, executed, abortError, sandboxCalls>>

extVars == <<settings, lastPlan, lastFailuresBrief, revertStore, hd, received,
             opsRunning, revertNote, opLog>>

\* A function of the program applied on its own: its argument and what it returned.
VARIABLES arg, ret

fnVars == <<arg, ret>>

vars == <<cfg, trusted, fs, spawned, pc, plan, root, i, results, executed,
          abortError, sandboxCalls, settings, lastPlan, lastFailuresBrief,
          revertStore, hd, received, opsRunning, revertNote, opLog, arg, ret>>

ErrBlocked == "Blocked path outside workspace"
ErrTrust == "This workspace is not trusted"
ErrWritePath == "write: missing path"
ErrAppendPath == "append: missing path"
ErrEditPath == "edit: missing path"
ErrEditFind == "edit: find must be string"
ErrMissingFile == "Cannot edit missing file"
ErrRegExp == "Invalid regular expression"
ErrShellCmd == "shell: missing cmd"
ErrShellOff == "Shell execution is disabled in settings"
ErrInstallOff == "Package installation is disabled"
ErrUnknown == "Unknown action"
ErrFs == "filesystem error"
ErrExec == "Command failed"

\* What a helper of one step leaves behind: err is the message of the error
\* it threw ("" when it returned), out what it returned as stdout/stderr
\* ("none": nothing, "empty": two empty strings, "captured": the child's output).
Returned(f, sp, out, calls) ==
  [err |-> "", fs |-> f, spawned |-> sp, out |-> out, calls |-> calls]
Thrown(err, f, sp, calls) ==
  [err |-> err, fs |-> f, spawned |-> sp, out |-> "none", calls |-> calls]

\* a || b for an optional path: the value, or dflt when absent.
OrElse(opt, dflt) == IF opt = None THEN dflt ELSE opt[1]

\* requireTrustedWorkspace() throws.
requireTrustedWorkspace == ~trusted

\* Mutant of the trust gate: the dry-run test is inverted.
TrustGateThrows_Inverted == cfg.dryRun /\ requireTrustedWorkspace

\* The trust gate of executePlan: if (!cfg.dryRun) requireTrustedWorkspace().
TrustGateThrows == ~cfg.dryRun /\ requireTrustedWorkspace

\* Mutant of safeWrite: the dry-run test is missing, the file is always written.
safeWrite_IgnoresDryRun(relPath, content) ==
  LET uri == withinWorkspace(root, relPath)
      fs1 == ensureDir(fs, Dirname(uri.target))
      w == writeFile(fs1, uri.target, content)
  IN IF ~uri.ok THEN Thrown(ErrBlocked, fs, spawned, <<uri>>)
     ELSE IF w.ok THEN Returned(w.fs, spawned, "none", <<uri>>)
     ELSE Thrown(ErrFs, fs1, spawned, <<uri>>)

\* Mutant of safeWrite: the content is added to what the file holds already.
safeWrite_KeepsOldText(relPath, content) ==
  LET uri == withinWorkspace(root, relPath) IN
  IF ~uri.ok THEN Thrown(ErrBlocked, fs, spawned, <<uri>>)
  ELSE IF ~cfg.dryRun
  THEN LET fs1 == ensureDir(fs, Dirname(uri.target))
           w == writeFile(fs1, uri.target, readFile(fs1, uri.target).data \o content)
       IN IF w.ok THEN Returned(w.fs, spawned, "none", <<uri>>)
          ELSE Thrown(ErrFs, fs1, spawned, <<uri>>)
  ELSE Returned(fs, spawned, "none", <<uri>>)

safeWrite(relPath, content) ==
  LET uri == withinWorkspace(root, relPath) IN
  IF ~uri.ok THEN Thrown(ErrBlocked, fs, spawned, <<uri>>)
  ELSE IF ~cfg.dryRun
  THEN LET fs1 == ensureDir(fs, Dirname(uri.target))
           w == writeFile(fs1, uri.target, content)
       IN IF w.ok THEN Returned(w.fs, spawned, "none", <<uri>>)
          ELSE Thrown(ErrFs, fs1, spawned, <<uri>>)
  ELSE Returned(fs, spawned, "none", <<uri>>)

\* Mutant of safeAppend: the old text is not read, the file holds the new text only.
safeAppend_DropsOldText(relPath, content) ==
  LET uri == withinWorkspace(root, relPath) IN
  IF ~uri.ok THEN Thrown(ErrBlocked, fs, spawned, <<uri>>)
  ELSE IF ~cfg.dryRun
  THEN LET fs1 == ensureDir(fs, Dirname(uri.target))
           w == writeFile(fs1, uri.target, content)
       IN IF w.ok THEN Returned(w.fs, spawned, "none", <<uri>>)
          ELSE Thrown(ErrFs, fs1, spawned, <<uri>>)
  ELSE Returned(fs, spawned, "none", <<uri>>)

safeAppend(relPath, content) ==
  LET uri == withinWorkspace(root, relPath) IN
  IF ~uri.ok THEN Thrown(ErrBlocked, fs, spawned, <<uri>>)
  ELSE IF ~cfg.dryRun
  THEN LET fs1 == ensureDir(fs, Dirname(uri.target))
           r == readFile(fs1, uri.target)
           old == IF r.ok THEN r.data ELSE <<>>
           w == writeFile(fs1, uri.target, old \o content)
       IN IF w.ok THEN Returned(w.fs, spawned, "none", <<uri>>)
          ELSE Thrown(ErrFs, fs1, spawned, <<uri>>)
  ELSE Returned(fs, spawned, "none", <<uri>>)

\* Mutant of safeEdit: a missing file is edited as if it were empty.
safeEdit_MissingIsEmpty(relPath, find, replace) ==
  LET uri == withinWorkspace(root, relPath)
      r == readFile(fs, uri.target)
      e == EditedText(r.data, find, replace)
      w == writeFile(fs, uri.target, e.out)
  IN IF ~uri.ok THEN Thrown(ErrBlocked, fs, spawned, <<uri>>)
     ELSE IF e.err THEN Thrown(ErrRegExp, fs, spawned, <<uri>>)
     ELSE IF ~cfg.dryRun
     THEN IF w.ok THEN Returned(w.fs, spawned, "none", <<uri>>)
          ELSE Thrown(ErrFs, fs, spawned, <<uri>>)
     ELSE Returned(fs, spawned, "none", <<uri>>)

safeEdit(relPath, find, replace) ==
  LET uri == withinWorkspace(root, relPath)
      r == readFile(fs, uri.target)
      e == EditedText(r.data, find, replace)
      w == writeFile(fs, uri.target, e.out)
  IN IF ~uri.ok THEN Thrown(ErrBlocked, fs, spawned, <<uri>>)
     ELSE IF ~r.ok THEN Thrown(ErrMissingFile, fs, spawned, <<uri>>)
     ELSE IF e.err THEN Thrown(ErrRegExp, fs, spawned, <<uri>>)
     ELSE IF ~cfg.dryRun
     THEN IF w.ok THEN Returned(w.fs, spawned, "none", <<uri>>)
          ELSE Thrown(ErrFs, fs, spawned, <<uri>>)
     ELSE Returned(fs, spawned, "none", <<uri>>)

\* Mutant of runShell: the allowShell gate is missing.
runShell_NoGate(cmd, cwdRel, exit) ==
  LET cwdUri == withinWorkspace(root, cwdRel) IN
  IF ~cwdUri.ok THEN Thrown(ErrBlocked, fs, spawned, <<cwdUri>>)
  ELSE IF cfg.dryRun THEN Returned(fs, spawned, "empty", <<cwdUri>>)
  ELSE IF cwdUri.target \notin fs.dirs THEN Thrown(ErrExec, fs, spawned, <<cwdUri>>)
  ELSE LET sp == Append(spawned, [cmd |-> cmd, cwd |-> cwdUri.target]) IN
       IF exit = "ok" THEN Returned(fs, sp, "captured", <<cwdUri>>)
       ELSE Thrown(ErrExec, fs, sp, <<cwdUri>>)

\* Mutant of runShell: the cwd is looked up before the dry-run test, so a
\* dry-run fails in a cwd that does not exist yet.
runShell_CwdBeforeDryRun(cmd, cwdRel, exit) ==
  LET cwdUri == withinWorkspace(root, cwdRel) IN
  IF ~cfg.allowShell THEN Thrown(ErrShellOff, fs, spawned, <<>>)
  ELSE IF ~cwdUri.ok THEN Thrown(ErrBlocked, fs, spawned, <<cwdUri>>)
  ELSE IF cwdUri.target \notin fs.dirs THEN Thrown(ErrExec, fs, spawned, <<cwdUri>>)
  ELSE IF cfg.dryRun THEN Returned(fs, spawned, "empty", <<cwdUri>>)
  ELSE LET sp == Append(spawned, [cmd |-> cmd, cwd |-> cwdUri.target]) IN
       IF exit = "ok" THEN Returned(fs, sp, "captured", <<cwdUri>>)
       ELSE Thrown(ErrExec, fs, sp, <<cwdUri>>)

\* exec(cmd, {cwd}): exit is the child's fate, "ok" or "fail" (non-zero
\* exit status).  No child is started in a cwd that is not a directory.
runShell(cmd, cwdRel, exit) ==
  LET cwdUri == withinWorkspace(root, cwdRel) IN
  IF ~cfg.allowShell THEN Thrown(ErrShellOff, fs, spawned, <<>>)
  ELSE IF ~cwdUri.ok THEN Thrown(ErrBlocked, fs, spawned, <<cwdUri>>)
  ELSE IF cfg.dryRun THEN Returned(fs, spawned, "empty", <<cwdUri>>)
  ELSE IF cwdUri.target \notin fs.dirs THEN Thrown(ErrExec, fs, spawned, <<cwdUri>>)
  ELSE LET sp == Append(spawned, [cmd |-> cmd, cwd |-> cwdUri.target]) IN
       IF exit = "ok" THEN Returned(fs, sp, "captured", <<cwdUri>>)
       ELSE Thrown(ErrExec, fs, sp, <<cwdUri>>)

\* Mutant of installPkgs: the allowInstall gate is missing.
installPkgs_NoGate(pkgs, dev, cwdRel, exit) ==
  IF pkgs = <<>> THEN Returned(fs, spawned, "empty", <<>>)
  ELSE runShell(<<"npm i", dev, pkgs>>, cwdRel, exit)

\* Mutant of installPkgs: npm is run for an empty package list too.
installPkgs_EmptyRunsNpm(pkgs, dev, cwdRel, exit) ==
  IF ~cfg.allowInstall THEN Thrown(ErrInstallOff, fs, spawned, <<>>)
  ELSE runShell(<<"npm i", dev, pkgs>>, cwdRel, exit)

\* installPkgs(pkgs, dev, cwdRel): the npm command line is [npm, dev, pkgs].
installPkgs(pkgs, dev, cwdRel, exit) ==
  IF ~cfg.allowInstall THEN Thrown(ErrInstallOff, fs, spawned, <<>>)
  ELSE IF pkgs = <<>> THEN Returned(fs, spawned, "empty", <<>>)
  ELSE runShell(<<"npm i", dev, pkgs>>, cwdRel, exit)

\* case "mkdir": if (!cfg.dryRun) await ensureDir(withinWorkspace(root, step.path || "."))
doMkdir(step) ==
  LET uri == withinWorkspace(root, OrElse(step.path, pDot)) IN
  IF cfg.dryRun THEN Returned(fs, spawned, "none", <<>>)
  ELSE IF ~uri.ok THEN Thrown(ErrBlocked, fs, spawned, <<uri>>)
  ELSE Returned(ensureDir(fs, uri.target), spawned, "none", <<uri>>)

\* The switch of the step loop: what executing one step does.
Dispatch(step, exit) ==
  CASE step.action = "mkdir" -> doMkdir(step)
    [] step.action = "write" ->
         IF step.path = None THEN Thrown(ErrWritePath, fs, spawned, <<>>)
         ELSE safeWrite(step.path[1], OrElse(step.content, <<>>))
    [] step.action = "append" ->
         IF step.path = None THEN Thrown(ErrAppendPath, fs, spawned, <<>>)
         ELSE safeAppend(step.path[1], OrElse(step.content, <<>>))
    [] step.action = "edit" ->
         IF step.path = None THEN Thrown(ErrEditPath, fs, spawned, <<>>)
         ELSE IF step.find = None THEN Thrown(ErrEditFind, fs, spawned, <<>>)
         ELSE safeEdit(step.path[1], step.find[1], OrElse(step.replace, <<>>))
    [] step.action = "shell" ->
         IF step.cmd = None THEN Thrown(ErrShellCmd, fs, spawned, <<>>)
         ELSE runShell(step.cmd[1], OrElse(step.cwd, pDot), exit)
    [] step.action = "install" ->
         installPkgs(OrElse(step.packages, <<>>), step.dev, OrElse(step.cwd, pDot), exit)
    [] OTHER -> Thrown(ErrUnknown, fs, spawned, <<>>)

\* Mutant of Tag: the label counts the steps from 0.
Tag_ZeroBased(idx, action) == <<"#", idx, action>>

\* const tag = `#${i + 1} ${step.action}`, for the 0-based loop index idx.
Tag(idx, action) == <<"#", idx + 1, action>>

\* Mutant of the step loop: the loop stops at the first failed step.
EndOfStep_BreakOnError(tag, o) ==
  [results |-> Append(results,
                 IF o.err = ""
                 THEN [step |-> tag, ok |-> TRUE, error |-> "", out |-> o.out]
                 ELSE [step |-> tag, ok |-> FALSE, error |-> o.err, out |-> "none"]),
   pc |-> IF o.err = "" THEN "running" ELSE "done",
   abortError |-> ""]

\* Mutant of the step loop: there is no catch clause, a step's error leaves executePlan.
EndOfStep_Rethrow(tag, o) ==
  IF o.err = ""
  THEN [results |-> Append(results, [step |-> tag, ok |-> TRUE, error |-> "", out |-> o.out]),
        pc |-> "running",
        abortError |-> ""]
  ELSE [results |-> results, pc |-> "aborted", abortError |-> o.err]

\* The end of one loop iteration: the Result pushed for the step (by its
\* case on success, by the catch clause on a thrown error) and where the
\* loop goes next; the catch clause swallows every error.
EndOfStep(tag, o) ==
  [results |-> Append(results,
                 IF o.err = ""
                 THEN [step |-> tag, ok |-> TRUE, error |-> "", out |-> o.out]
                 ELSE [step |-> tag, ok |-> FALSE, error |-> o.err, out |-> "none"]),
   pc |-> "running",
   abortError |-> ""]

\* The onMessage invocations the model follows at the same time.
Handlers == {"h1", "h2"}

\* An invocation slot with no message in it.
IdleHandler ==
  [kind |-> "none", at |-> "idle", plan |-> PlanOf(None, <<>>), before |-> <<>>,
   i |-> 0, results |-> <<>>, aborted |-> FALSE, attempts |-> 0, requested |-> 0]

\* The module state of extension.ts after activate(), no message received.
ExtensionAtRest ==
  /\ lastPlan = None
  /\ lastFailuresBrief = <<>>
  /\ revertStore = <<>>
  /\ hd = [h \in Handlers |-> IdleHandler]
  /\ received = 0
  /\ opsRunning = FALSE
  /\ revertNote = [type |-> "none", count |-> 0]
  /\ opLog = <<>>

\* No function has been applied on its own.
NothingApplied == arg = None /\ ret = None

\* The executor's variables when executePlan is not driven on its own.
ExecutorAtRest ==
  /\ pc = "idle"
  /\ plan = PlanOf(None, <<>>)
  /\ root = WorkspaceFolder
  /\ i = 0
  /\ results = <<>>
  /\ executed = <<>>
  /\ abortError = ""
  /\ sandboxCalls = <<>>

\* package.json defaults read by getExtCfg().
DefaultSettings == [autoRun |-> FALSE, autoRepair |-> TRUE, maxRepairAttempts |-> 2]

Init ==
  /\ settings = DefaultSettings
  /\ ExtensionAtRest
  /\ NothingApplied
  /\ cfg \in [dryRun : BOOLEAN, allowShell : BOOLEAN, allowInstall : BOOLEAN]
  /\ trusted \in BOOLEAN
  /\ fs = [files |-> InitFiles, dirs |-> InitDirs]
  /\ spawned = <<>>
  /\ pc = "idle"
  /\ plan = PlanOf(None, <<>>)
  /\ root = WorkspaceFolder
  /\ i = 0
  /\ results = <<>>
  /\ executed = <<>>
  /\ abortError = ""
  /\ sandboxCalls = <<>>

\* executePlan(plan, workspaceFolder, output) up to the step loop: the Plan
\* root is resolved through the sandbox, then the trust gate is applied.
CallExecutePlan(p) ==
  /\ pc = "idle"
  /\ LET r == withinWorkspace(WorkspaceFolder, OrElse(p.root, pDot)) IN
     /\ plan' = p
     /\ sandboxCalls' = <<r>>
     /\ IF ~r.ok
        THEN /\ pc' = "aborted"
             /\ abortError' = ErrBlocked
             /\ root' = root
        ELSE IF TrustGateThrows
        THEN /\ pc' = "aborted"
             /\ abortError' = ErrTrust
             /\ root' = r.target
        ELSE /\ pc' = "running"
             /\ abortError' = ""
             /\ root' = r.target
  /\ UNCHANGED <<cfg, trusted, fs, spawned, i, results, executed>>

\* One iteration of the step loop.
ExecStep(exit) ==
  /\ pc = "running"
  /\ i < Len(plan.steps)
  /\ LET step == plan.steps[i + 1]
         o == Dispatch(step, exit)
         e == EndOfStep(Tag(i, step.action), o)
     IN /\ fs' = o.fs
        /\ spawned' = o.spawned
        /\ sandboxCalls' = o.calls
        /\ results' = e.results
        /\ pc' = e.pc
        /\ abortError' = e.abortError
  /\ executed' = Append(executed, i + 1)
  /\ i' = i + 1
  /\ UNCHANGED <<cfg, trusted, plan, root>>

\* The loop is over: executePlan opens the written files in the editor,
\* lists the root (fileTree, read-only) and returns { results, tree }.
ReturnResults ==
  /\ pc = "running"
  /\ i = Len(plan.steps)
  /\ pc' = "done"
  /\ sandboxCalls' = <<>>
  /\ UNCHANGED <<cfg, trusted, fs, spawned, plan, root, i, results, executed, abortError>>

Next ==
  \/ /\ pc = "idle"
     /\ \E n \in 0..MaxSteps : \E st \in [1..n -> Steps] : \E r \in PlanRoots :
          CallExecutePlan(PlanOf(r, st))
     /\ UNCHANGED <<extVars, fnVars>>
  \/ (\E exit \in {"ok", "fail"} : ExecStep(exit)) /\ UNCHANGED <<extVars, fnVars>>
  \/ ReturnResults /\ UNCHANGED <<extVars, fnVars>>

Spec == Init /\ [][Next]_vars

------------------------------------------------------------------------------
(* Plans of edit steps, run on a file a of varying text *)

MaxEdits == 2

cBar == <<"b", "a", "r">>
cFooFOObaz == <<"f", "o", "o", "F", "O", "O", "b", "a", "z">>
cFoofoo == <<"f", "o", "o", "f", "o", "o">>
cASlashB == <<"a", "/", "b">>

\* What the file a holds before the run.
EditTexts == {cFooFOObaz, cFoofoo, cASlashB}

\* step.find of the edit steps: "/foo/gi", "/o/", "/", "foo" and "zz".
EditFinds ==
  { <<"/", "f", "o", "o", "/", "g", "i">>, <<"/", "o", "/">>, <<"/">>,
    cFoo, <<"z", "z">> }

EditSteps ==
  {Edit(Some(pA), Some(f), Some(cBar)) : f \in EditFinds}
    \cup {Edit(Some(pA), Some(cFoo), None)}

InitEdit ==
  /\ settings = DefaultSettings
  /\ ExtensionAtRest
  /\ NothingApplied
  /\ cfg \in [dryRun : BOOLEAN, allowShell : {FALSE}, allowInstall : {FALSE}]
  /\ trusted = TRUE
  /\ fs \in {[files |-> [p \in {<<nW, nA>>} |-> t], dirs |-> InitDirs] : t \in EditTexts}
  /\ spawned = <<>>
  /\ pc = "idle"
  /\ plan = PlanOf(None, <<>>)
  /\ root = WorkspaceFolder
  /\ i = 0
  /\ results = <<>>
  /\ executed = <<>>
  /\ abortError = ""
  /\ sandboxCalls = <<>>

NextEdit ==
  \/ /\ pc = "idle"
     /\ \E n \in 0..MaxEdits : \E st \in [1..n -> EditSteps] :
          CallExecutePlan(PlanOf(None, st))
     /\ UNCHANGED <<extVars, fnVars>>
  \/ ExecStep("ok") /\ UNCHANGED <<extVars, fnVars>>
  \/ ReturnResults /\ UNCHANGED <<extVars, fnVars>>

SpecEdit == InitEdit /\ [][NextEdit]_vars

\* ---------------------------------------------------------------------------
\* executePlan on Plans whose root leaves the workspace folder.
\* ---------------------------------------------------------------------------

\* Longest Plan with such a root.
MaxRootSteps == 2

\* The sibling directory /wx, by a relative and by an absolute path.
pSib == Rel(<<UP, nWX>>)
pAbsSib == [abs |-> TRUE, segs |-> <<nWX>>]

\* Plan.root values that name a place outside /w: the parent, an absolute
\* path, and the sibling whose name starts with the folder's name.
OutsideRoots == {Some(pUp), Some(pAbsO), Some(pSib), Some(pAbsSib)}

\* Steps whose own paths stay under the Plan root.
RootSteps ==
  {Mkdir(Some(pD)), Write(Some(pA), Some(cX)), AppendTo(Some(pA), Some(cY)),
   Shell(Some("make"), None), Install(Some(<<"pkg">>), FALSE, None)}

InitRoot ==
  /\ settings = DefaultSettings
  /\ ExtensionAtRest
  /\ NothingApplied
  /\ cfg \in [dryRun : BOOLEAN, allowShell : BOOLEAN, allowInstall : BOOLEAN]
  /\ trusted \in BOOLEAN
  /\ fs = [files |-> InitFiles, dirs |-> InitDirs]
  /\ spawned = <<>>
  /\ pc = "idle"
  /\ plan = PlanOf(None, <<>>)
  /\ root = WorkspaceFolder
  /\ i = 0
  /\ results = <<>>
  /\ executed = <<>>
  /\ abortError = ""
  /\ sandboxCalls = <<>>

NextRoot ==
  \/ /\ pc = "idle"
     /\ \E r \in OutsideRoots : \E n \in 0..MaxRootSteps : \E st \in [1..n -> RootSteps] :
          CallExecutePlan(PlanOf(r, st))
     /\ UNCHANGED <<extVars, fnVars>>
  \/ ExecStep("ok") /\ UNCHANGED <<extVars, fnVars>>
  \/ ExecStep("fail") /\ UNCHANGED <<extVars, fnVars>>
  \/ ReturnResults /\ UNCHANGED <<extVars, fnVars>>

SpecRoot == InitRoot /\ [][NextRoot]_vars

\* ---------------------------------------------------------------------------
\* executePlan twice on one Plan: in dry-run mode, then, with the setting
\* switched off, in live mode.
\* ---------------------------------------------------------------------------

\* Longest Plan that is run twice.
MaxPreviewSteps == 2

PreviewSteps ==
  {Mkdir(Some(pD)), Mkdir(Some(pUpO)), Write(Some(pDB), Some(cFoo)),
   Write(Some(pUpO), Some(cX)), AppendTo(Some(pA), Some(cY)),
   Edit(Some(pDB), Some(<<"o">>), Some(cX)), Edit(Some(pA), Some(<<"o">>), Some(cX)),
   Shell(Some("make"), None), Install(Some(<<"pkg">>), FALSE, None)}

\* What is kept of a run that is over.
RunOutcome == [aborted |-> pc = "aborted", results |-> results]

InitPreview ==
  /\ settings = DefaultSettings
  /\ ExtensionAtRest
  /\ NothingApplied
  /\ cfg \in [dryRun : {TRUE}, allowShell : BOOLEAN, allowInstall : BOOLEAN]
  /\ trusted = TRUE
  /\ fs = [files |-> InitFiles, dirs |-> InitDirs]
  /\ spawned = <<>>
  /\ pc = "idle"
  /\ plan = PlanOf(None, <<>>)
  /\ root = WorkspaceFolder
  /\ i = 0
  /\ results = <<>>
  /\ executed = <<>>
  /\ abortError = ""
  /\ sandboxCalls = <<>>

\* The setting myCursor.dryRun is switched off after the dry-run is over;
\* getCfg() reads it at the next executePlan call, which starts with fresh
\* locals.
ToggleDryRun ==
  /\ pc \in {"done", "aborted"}
  /\ cfg.dryRun
  /\ cfg' = [cfg EXCEPT !.dryRun = FALSE]
  /\ ret' = Some(RunOutcome)
  /\ pc' = "idle"
  /\ i' = 0
  /\ results' = <<>>
  /\ executed' = <<>>
  /\ abortError' = ""
  /\ sandboxCalls' = <<>>
  /\ UNCHANGED <<trusted, fs, spawned, plan, root, arg, extVars>>

NextPreview ==
  \/ /\ pc = "idle"
     /\ arg = None
     /\ \E n \in 0..MaxPreviewSteps : \E st \in [1..n -> PreviewSteps] :
          /\ CallExecutePlan(PlanOf(None, st))
          /\ arg' = Some(PlanOf(None, st))
     /\ UNCHANGED <<extVars, ret>>
  \/ ExecStep("ok") /\ UNCHANGED <<extVars, fnVars>>
  \/ ReturnResults /\ UNCHANGED <<extVars, fnVars>>
  \/ ToggleDryRun
  \/ /\ pc = "idle"
     /\ arg # None
     /\ CallExecutePlan(arg[1])
     /\ UNCHANGED <<extVars, fnVars>>

SpecPreview == InitPreview /\ [][NextPreview]_vars

------------------------------------------------------------------------------
(* The extension: extension.ts, runPlan, revertPlan and chatProvider.onMessage *)

MaxMessages == 3

\* Plans the webview's plan cards carry: a write of the existing file a; a
\* write outside the workspace followed by a write of the new file d/b; an
\* edit of d/b; a write of the new file d/b followed by an append to a.
PlanWriteA == PlanOf(None, <<Write(Some(pA), Some(cX))>>)
PlanOutsideThenNew ==
  PlanOf(None, <<Write(Some(pUpO), Some(cX)), Write(Some(pDB), Some(cY))>>)
PlanEditNew == PlanOf(None, <<Edit(Some(pDB), Some(<<"o">>), Some(cX))>>)
PlanNewThenAppend ==
  PlanOf(None, <<Write(Some(pDB), Some(cY)), AppendTo(Some(pA), Some(cY))>>)

\* A Plan that makes the directory d, runs a command and writes the new file d/b.
PlanMkdirShellWrite ==
  PlanOf(None, <<Mkdir(Some(pD)), Shell(Some("make"), None), Write(Some(pDB), Some(cY))>>)

CardPlans ==
  {PlanWriteA, PlanOutsideThenNew, PlanEditNew, PlanNewThenAppend, PlanMkdirShellWrite}

\* The fields of a Plan and of a step, as the types of plan.ts declare them.
PlanFields == <<"goal", "root", "steps">>
StepFields ==
  <<"action", "path", "content", "find", "replace", "cmd", "cwd", "packages", "dev">>

\* Every key in the order of Array.prototype.sort (by UTF-16 code unit).
KeyOrder ==
  <<"action", "cmd", "content", "cwd", "dev", "find", "goal", "packages",
    "path", "replace", "root", "steps">>

\* The keys a JSON payload holds for a Plan and for a step: the fields that
\* are present (dev is present when true).
PlanKeys(p) == SelectSeq(PlanFields, LAMBDA k : k # "root" \/ p.root # None)
StepKeys(s) ==
  SelectSeq(StepFields,
            LAMBDA k : IF k = "action" THEN TRUE
                       ELSE IF k = "dev" THEN s.dev ELSE s[k] # None)

\* A JS object is the sequence of its members <<key, value>> in insertion
\* order, which is the order Object.keys lists them in.
StepObject(s, keys) ==
  [n \in 1..Len(keys) |->
     <<keys[n], IF keys[n] = "action" THEN s.action
                ELSE IF keys[n] = "dev" THEN s.dev ELSE s[keys[n]][1]>>]

PlanObject(p, keys, stepKeys) ==
  [n \in 1..Len(keys) |->
     <<keys[n], IF keys[n] = "steps"
                THEN [j \in 1..Len(p.steps) |-> StepObject(p.steps[j], stepKeys[j])]
                ELSE IF keys[n] = "goal" THEN p.goal ELSE p.root[1]>>]

\* Object.keys(v).sort() and v[k].
SortedKeys(v) == SelectSeq(KeyOrder, LAMBDA k : \E j \in 1..Len(v) : v[j][1] = k)
Member(v, k) == v[CHOOSE j \in 1..Len(v) : v[j][1] = k]

\* walk without the sort: the members in the order they came in.
walk_KeepsOrder(v) == v

\* walk(v) for a Plan object: out gets the members in sorted key order; the
\* steps array is mapped, each step object getting its members in sorted key
\* order with its values, which are no objects, as they are.
walkStep(v) ==
  LET ks == SortedKeys(v) IN [n \in 1..Len(ks) |-> Member(v, ks[n])]

walk(v) ==
  LET ks == SortedKeys(v)
  IN [n \in 1..Len(ks) |->
        LET m == Member(v, ks[n])
        IN <<m[1], IF m[1] = "steps"
                   THEN [j \in 1..Len(m[2]) |-> walkStep(m[2][j])]
                   ELSE m[2]>>]

\* JSON.stringify of a tree of strings, booleans, arrays and objects: the
\* text lists the members in insertion order and two trees give the same
\* text only when they are equal, so the tree stands for its text.
JSONStringify(v) == v

\* stableStringify(plan) for the Plan p as JSON.parse builds it, its keys in
\* the order of the declaration.
stableStringify(p) ==
  JSONStringify(walk(PlanObject(p, PlanKeys(p),
                                [j \in 1..Len(p.steps) |-> StepKeys(p.steps[j])])))

RECURSIVE TouchedFrom(_, _)
\* The loop of collectTouchedFiles: paths enter the Set in step order, once.
TouchedFrom(steps, paths) ==
  IF steps = <<>> THEN paths
  ELSE LET s == Head(steps) IN
       IF /\ s.path # None
          /\ s.action \in {"write", "append", "edit"}
          /\ \A k \in 1..Len(paths) : paths[k] # s.path[1]
       THEN TouchedFrom(Tail(steps), Append(paths, s.path[1]))
       ELSE TouchedFrom(Tail(steps), paths)

collectTouchedFiles(p) == TouchedFrom(p.steps, <<>>)

\* readUtf8IfExists(uri): the text, or null when the file cannot be read.
readUtf8IfExists(f, p) == IF readFile(f, p).ok THEN Some(readFile(f, p).data) ELSE None

RECURSIVE SnapshotFrom(_, _, _, _)
\* The snapshot loop of runPlan: the first path the sandbox rejects throws
\* out of the loop, the entries set before it stay in the Map.
SnapshotFrom(f, rootUri, rels, before) ==
  IF rels = <<>> THEN before
  ELSE LET fileUri == withinWorkspace(rootUri, Head(rels)) IN
       IF ~fileUri.ok THEN before
       ELSE SnapshotFrom(f, rootUri, Tail(rels),
              Append(before, [rel |-> Head(rels),
                              prior |-> readUtf8IfExists(f, fileUri.target)]))

\* const before = new Map(); try { ... } catch { "Snapshot warning" }
Snapshot(f, p) ==
  LET rootUri == withinWorkspace(WorkspaceFolder, OrElse(p.root, pDot)) IN
  IF ~rootUri.ok THEN <<>>
  ELSE SnapshotFrom(f, rootUri.target, collectTouchedFiles(p), <<>>)

\* Mutant of the brief: every Result gets a line, failed or not.
BriefOf_EveryResult(rs) ==
  [k \in 1..Len(rs) |-> [step |-> rs[k].step, error |-> rs[k].error]]

\* lastFailuresBrief after executePlan returned: one line per failed Result.
BriefOf(rs) ==
  LET failed == SelectSeq(rs, LAMBDA r : ~r.ok) IN
  [k \in 1..Len(failed) |-> [step |-> failed[k].step, error |-> failed[k].error]]

\* lastFailuresBrief after executePlan threw.
RuntimeBrief(err) == <<[step |-> <<"runtime exception">>, error |-> err]>>

\* Mutant of the record store: an empty snapshot is stored too.
StoreRecord_AlsoEmpty(store, p, before) ==
  [id \in (DOMAIN store) \cup {stableStringify(p)} |->
     IF id = stableStringify(p)
     THEN [root |-> OrElse(p.root, pDot), before |-> before]
     ELSE store[id]]

\* Mutant of the record store: the record of an earlier execution is kept.
StoreRecord_KeepsFirst(store, p, before) ==
  IF before = <<>> \/ stableStringify(p) \in DOMAIN store THEN store
  ELSE [id \in (DOMAIN store) \cup {stableStringify(p)} |->
          IF id = stableStringify(p)
          THEN [root |-> OrElse(p.root, pDot), before |-> before]
          ELSE store[id]]

\* if (before.size > 0) revertStore.set(planId, { folder, root, before, createdAt })
\* Mutant of the store: a record is kept for live executions only.
StoreRecord_LiveOnly(store, p, before) ==
  IF before = <<>> \/ cfg.dryRun THEN store
  ELSE [id \in (DOMAIN store) \cup {stableStringify(p)} |->
          IF id = stableStringify(p)
          THEN [root |-> OrElse(p.root, pDot), before |-> before]
          ELSE store[id]]

StoreRecord(store, p, before) ==
  IF before = <<>> THEN store
  ELSE [id \in (DOMAIN store) \cup {stableStringify(p)} |->
          IF id = stableStringify(p)
          THEN [root |-> OrElse(p.root, pDot), before |-> before]
          ELSE store[id]]

\* Mutant of deleteIfExists: the directory of the file is removed with it.
deleteIfExists_WithDirectory(f, p) ==
  [files |-> [q \in (DOMAIN f.files) \ {p} |-> f.files[q]],
   dirs |-> f.dirs \ {Dirname(p)}]

\* deleteIfExists(uri): the file is removed; every error is swallowed.
deleteIfExists(f, p) ==
  [f EXCEPT !.files = [q \in (DOMAIN f.files) \ {p} |-> f.files[q]]]

\* writeUtf8(uri, text): ensureDirForFile, then writeFile.
writeUtf8(f, p, text) == writeFile(ensureDir(f, Dirname(p)), p, text)

RECURSIVE RestoreFrom(_, _, _, _)
\* The loop of revertPlan over record.before.entries(), touched counting the
\* entries done; an error leaves the loop (catch: "Revert failed") with the
\* entries before it restored.
RestoreFrom(f, rootUri, entries, touched) ==
  IF entries = <<>> THEN [fs |-> f, touched |-> touched, failed |-> FALSE]
  ELSE LET fileUri == withinWorkspace(rootUri, Head(entries).rel)
           prev == Head(entries).prior
       IN IF ~fileUri.ok THEN [fs |-> f, touched |-> touched, failed |-> TRUE]
          ELSE IF prev = None
          THEN RestoreFrom(deleteIfExists(f, fileUri.target), rootUri, Tail(entries),
                           touched + 1)
          ELSE LET w == writeUtf8(f, fileUri.target, prev[1]) IN
               IF w.ok THEN RestoreFrom(w.fs, rootUri, Tail(entries), touched + 1)
               ELSE [fs |-> w.fs, touched |-> touched, failed |-> TRUE]

\* What revertPlan does with a record of the store: the filesystem it
\* leaves and the message it posts.
Restored(f, record) ==
  LET rootUri == withinWorkspace(WorkspaceFolder, record.root)
      r == RestoreFrom(f, rootUri.target, record.before, 0)
  IN IF ~rootUri.ok THEN [fs |-> f, note |-> [type |-> "thrown", count |-> 0]]
     ELSE IF r.failed THEN [fs |-> r.fs, note |-> [type |-> "error", count |-> 0]]
     ELSE [fs |-> r.fs, note |-> [type |-> "model", count |-> r.touched]]

\* onMessage "run-plan": lastPlan = plan; the history is saved; runPlan is next.
ReceiveRunPlan(h, p) ==
  /\ hd[h].at = "idle"
  /\ received < MaxMessages
  /\ received' = received + 1
  /\ lastPlan' = Some(p)
  /\ hd' = [hd EXCEPT ![h] = [IdleHandler EXCEPT !.kind = "run-plan", !.at = "ready", !.plan = p]]
  /\ UNCHANGED <<cfg, trusted, fs, spawned, execVars, fnVars, revertNote, settings, lastFailuresBrief,
                 revertStore, opsRunning>>

\* runPlan up to the step loop of executePlan: the snapshot is taken, the
\* Plan root is resolved and the trust gate applied; an error thrown there
\* is caught by runPlan, which records it as the brief.
StartRun(h) ==
  /\ hd[h].at = "ready"
  /\ LET p == hd[h].plan
         r == withinWorkspace(WorkspaceFolder, OrElse(p.root, pDot))
         before == Snapshot(fs, p)
     IN IF ~r.ok \/ TrustGateThrows
        THEN /\ lastFailuresBrief' = RuntimeBrief(IF ~r.ok THEN ErrBlocked ELSE ErrTrust)
             /\ hd' = [hd EXCEPT ![h].at = "saving", ![h].aborted = TRUE,
                                 ![h].before = before]
        ELSE /\ lastFailuresBrief' = lastFailuresBrief
             /\ hd' = [hd EXCEPT ![h].at = "executing", ![h].before = before,
                                 ![h].i = 0, ![h].results = <<>>]
  /\ opsRunning' = TRUE
  /\ UNCHANGED <<cfg, trusted, fs, spawned, execVars, fnVars, revertNote, settings, lastPlan,
                 revertStore, received>>

\* One iteration of the step loop of the executePlan call of h.
RunStep(h, exit) ==
  /\ hd[h].at = "executing"
  /\ hd[h].i < Len(hd[h].plan.steps)
  /\ LET step == hd[h].plan.steps[hd[h].i + 1]
         o == Dispatch(step, exit)
         tag == Tag(hd[h].i, step.action)
     IN /\ fs' = o.fs
        /\ spawned' = o.spawned
        /\ hd' = [hd EXCEPT ![h].i = @ + 1,
                            ![h].results = Append(@,
                              IF o.err = ""
                              THEN [step |-> tag, ok |-> TRUE, error |-> "", out |-> o.out]
                              ELSE [step |-> tag, ok |-> FALSE, error |-> o.err, out |-> "none"])]
  /\ UNCHANGED <<cfg, trusted, execVars, fnVars, revertNote, settings, lastPlan, lastFailuresBrief,
                 revertStore, received, opsRunning>>

\* executePlan returns its Results to runPlan, which stores the RevertRecord
\* and sets lastFailuresBrief, then waits for the history to be saved.
FinishRun(h) ==
  /\ hd[h].at = "executing"
  /\ hd[h].i = Len(hd[h].plan.steps)
  /\ revertStore' = StoreRecord(revertStore, hd[h].plan, hd[h].before)
  /\ lastFailuresBrief' = BriefOf(hd[h].results)
  /\ hd' = [hd EXCEPT ![h].at = "saving"]
  /\ UNCHANGED <<cfg, trusted, fs, spawned, execVars, fnVars, revertNote, settings, lastPlan,
                 received, opsRunning>>

\* runPlan returns (finally: ops running false) to an onMessage branch that
\* has nothing left to do: "run", "run-plan" and "repair".
EndRun(h) ==
  /\ hd[h].at = "saving"
  /\ hd[h].kind \in {"run", "run-plan", "repair"}
  /\ hd' = [hd EXCEPT ![h] = IdleHandler]
  /\ opsRunning' = FALSE
  /\ UNCHANGED <<cfg, trusted, fs, spawned, execVars, fnVars, revertNote, settings, lastPlan,
                 lastFailuresBrief, revertStore, received>>

\* Mutant of revertPlan: the record is consumed by the revert.
revertPlan_ConsumesRecord(p) ==
  LET id == stableStringify(p) IN
  IF id \notin DOMAIN revertStore
  THEN [fs |-> fs, store |-> revertStore, note |-> [type |-> "warning", count |-> 0]]
  ELSE [fs |-> Restored(fs, revertStore[id]).fs,
        store |-> [k \in (DOMAIN revertStore) \ {id} |-> revertStore[k]],
        note |-> Restored(fs, revertStore[id]).note]

\* revertPlan(plan): the filesystem and the store it leaves, and what it
\* posts: a warning without a record, else the count of reverted files or an error.
\* Mutant of revertPlan: a revert that finds no record empties the store.
revertPlan_ForgetsStore(p) ==
  LET id == stableStringify(p) IN
  IF id \notin DOMAIN revertStore
  THEN [fs |-> fs, store |-> <<>>, note |-> [type |-> "warning", count |-> 0]]
  ELSE [fs |-> Restored(fs, revertStore[id]).fs,
        store |-> revertStore,
        note |-> Restored(fs, revertStore[id]).note]

revertPlan(p) ==
  LET id == stableStringify(p) IN
  IF id \notin DOMAIN revertStore
  THEN [fs |-> fs, store |-> revertStore, note |-> [type |-> "warning", count |-> 0]]
  ELSE [fs |-> Restored(fs, revertStore[id]).fs,
        store |-> revertStore,
        note |-> Restored(fs, revertStore[id]).note]

\* onMessage "revert-plan".
ReceiveRevertPlan(h, p) ==
  /\ hd[h].at = "idle"
  /\ received < MaxMessages
  /\ received' = received + 1
  /\ fs' = revertPlan(p).fs
  /\ revertStore' = revertPlan(p).store
  /\ revertNote' = revertPlan(p).note
  /\ UNCHANGED <<cfg, trusted, spawned, execVars, fnVars, settings, lastPlan,
                 lastFailuresBrief, hd, opsRunning>>

\* The run of h that is ending, as an entry of the log.
RunEntry(h) ==
  [op |-> IF hd[h].aborted THEN "abort" ELSE "run", plan |-> hd[h].plan, live |-> ~cfg.dryRun]

RevertEntry(p) == [op |-> "revert", plan |-> p, live |-> TRUE]

\* Plan cards run and reverted one after the other: the next message is
\* sent when the invocation before it is over.
InitRevert ==
  /\ settings = DefaultSettings
  /\ ExtensionAtRest
  /\ NothingApplied
  /\ ExecutorAtRest
  /\ cfg \in [dryRun : BOOLEAN, allowShell : BOOLEAN, allowInstall : {FALSE}]
  /\ trusted \in BOOLEAN
  /\ fs = [files |-> InitFiles, dirs |-> InitDirs]
  /\ spawned = <<>>

NextRevert ==
  \/ (\E p \in CardPlans : ReceiveRunPlan("h1", p)) /\ UNCHANGED opLog
  \/ StartRun("h1") /\ UNCHANGED opLog
  \/ RunStep("h1", "ok") /\ UNCHANGED opLog
  \/ FinishRun("h1") /\ UNCHANGED opLog
  \/ EndRun("h1") /\ opLog' = Append(opLog, RunEntry("h1"))
  \/ \E p \in CardPlans : ReceiveRevertPlan("h1", p) /\ opLog' = Append(opLog, RevertEntry(p))

SpecRevert == InitRevert /\ [][NextRevert]_vars

\* ---------------------------------------------------------------------------
\* run-plan messages with the dry-run setting toggled between executions.
\* ---------------------------------------------------------------------------

\* The Plan whose only path is outside the workspace.
PlanOutsideOnly == PlanOf(None, <<Write(Some(pUpO), Some(cX))>>)

TogglePlans == {PlanWriteA, PlanOutsideThenNew, PlanOutsideOnly, PlanMkdirShellWrite}

\* The setting myCursor.dryRun is changed while no message is being
\* handled; getCfg() reads it at the next executePlan call.
ToggleDryRunSetting ==
  /\ hd["h1"].at = "idle"
  /\ cfg' = [cfg EXCEPT !.dryRun = ~cfg.dryRun]
  /\ UNCHANGED <<trusted, fs, spawned, execVars, fnVars, extVars>>

InitToggle ==
  /\ settings = DefaultSettings
  /\ ExtensionAtRest
  /\ NothingApplied
  /\ ExecutorAtRest
  /\ cfg \in [dryRun : BOOLEAN, allowShell : {FALSE}, allowInstall : {FALSE}]
  /\ trusted \in BOOLEAN
  /\ fs = [files |-> InitFiles, dirs |-> InitDirs]
  /\ spawned = <<>>

NextToggle ==
  \/ (\E p \in TogglePlans : ReceiveRunPlan("h1", p)) /\ UNCHANGED opLog
  \/ StartRun("h1") /\ UNCHANGED opLog
  \/ RunStep("h1", "ok") /\ UNCHANGED opLog
  \/ FinishRun("h1") /\ UNCHANGED opLog
  \/ EndRun("h1") /\ UNCHANGED opLog
  \/ ToggleDryRunSetting

SpecToggle == InitToggle /\ [][NextToggle]_vars

------------------------------------------------------------------------------
(* The prompt branch of onMessage and its auto-repair loop *)

MaxRepairAttempts == 2

\* Plans generatePlan and generateRepairPlan return: one whose step succeeds
\* and one whose step fails as long as there is no file d/b.
GeneratedPlans == {PlanWriteA, PlanEditNew}

\* onMessage "prompt": generatePlan is called and awaited.
ReceivePrompt(h) ==
  /\ hd[h].at = "idle"
  /\ received < MaxMessages
  /\ received' = received + 1
  /\ hd' = [hd EXCEPT ![h] = [IdleHandler EXCEPT !.kind = "prompt", !.at = "planning"]]
  /\ UNCHANGED <<cfg, trusted, fs, spawned, execVars, fnVars, revertNote, settings, lastPlan,
                 lastFailuresBrief, revertStore, opsRunning>>

\* generatePlan resolves with p: lastPlan = plan; without autoRun the branch
\* is over, with it attempts = 0 and runPlan(plan) is next.
GeneratePlanReturns(h, p) ==
  /\ hd[h].at = "planning"
  /\ lastPlan' = Some(p)
  /\ IF ~settings.autoRun
     THEN /\ hd' = [hd EXCEPT ![h] = IdleHandler]
          /\ opsRunning' = FALSE
     ELSE /\ hd' = [hd EXCEPT ![h].at = "ready", ![h].plan = p, ![h].attempts = 0]
          /\ opsRunning' = opsRunning
  /\ UNCHANGED <<cfg, trusted, fs, spawned, execVars, fnVars, revertNote, settings, lastFailuresBrief,
                 revertStore, received>>

\* generatePlan or generateRepairPlan rejects: the catch of the branch posts
\* the error and the invocation is over.
GenerationThrows(h) ==
  /\ hd[h].at \in {"planning", "repairing"}
  /\ hd' = [hd EXCEPT ![h] = IdleHandler]
  /\ UNCHANGED <<cfg, trusted, fs, spawned, execVars, fnVars, revertNote, settings, lastPlan,
                 lastFailuresBrief, revertStore, received, opsRunning>>

\* Mutant of the loop test: one more attempt is allowed.
RepairWanted_OneMore(h) ==
  /\ settings.autoRepair
  /\ lastFailuresBrief # <<>>
  /\ hd[h].attempts <= settings.maxRepairAttempts

\* while (autoRepair && lastFailuresBrief && attempts < maxRepairAttempts)
RepairWanted(h) ==
  /\ settings.autoRepair
  /\ lastFailuresBrief # <<>>
  /\ hd[h].attempts < settings.maxRepairAttempts

\* runPlan returns to the prompt branch, which tests the loop condition:
\* attempts++ and generateRepairPlan is called and awaited, or the loop is over.
AfterRunInPrompt(h) ==
  /\ hd[h].at = "saving"
  /\ hd[h].kind = "prompt"
  /\ opsRunning' = FALSE
  /\ IF RepairWanted(h)
     THEN hd' = [hd EXCEPT ![h].at = "repairing", ![h].attempts = @ + 1,
                           ![h].requested = @ + 1]
     ELSE hd' = [hd EXCEPT ![h] = IdleHandler]
  /\ UNCHANGED <<cfg, trusted, fs, spawned, execVars, fnVars, revertNote, settings, lastPlan,
                 lastFailuresBrief, revertStore, received>>

\* generateRepairPlan resolves with p: lastPlan = repairPlan; runPlan is next
\* (in the "repair" branch only with autoRun).
GenerateRepairPlanReturns(h, p) ==
  /\ hd[h].at = "repairing"
  /\ lastPlan' = Some(p)
  /\ IF hd[h].kind = "repair" /\ ~settings.autoRun
     THEN hd' = [hd EXCEPT ![h] = IdleHandler]
     ELSE hd' = [hd EXCEPT ![h] = [IdleHandler EXCEPT !.kind = hd[h].kind, !.at = "ready",
                   !.plan = p, !.attempts = hd[h].attempts, !.requested = hd[h].requested]]
  /\ UNCHANGED <<cfg, trusted, fs, spawned, execVars, fnVars, revertNote, settings, lastFailuresBrief,
                 revertStore, received, opsRunning>>

\* onMessage "run", sent by the Run button (disabled while ops are running).
ReceiveRun(h) ==
  /\ hd[h].at = "idle"
  /\ ~opsRunning
  /\ received < MaxMessages
  /\ received' = received + 1
  /\ IF lastPlan = None
     THEN hd' = hd
     ELSE hd' = [hd EXCEPT ![h] = [IdleHandler EXCEPT !.kind = "run", !.at = "ready",
                                     !.plan = lastPlan[1]]]
  /\ UNCHANGED <<cfg, trusted, fs, spawned, execVars, fnVars, revertNote, settings, lastPlan,
                 lastFailuresBrief, revertStore, opsRunning>>

\* onMessage "repair", sent by the Repair button (disabled while ops are running).
ReceiveRepair(h) ==
  /\ hd[h].at = "idle"
  /\ ~opsRunning
  /\ received < MaxMessages
  /\ received' = received + 1
  /\ IF lastFailuresBrief = <<>>
     THEN hd' = hd
     ELSE hd' = [hd EXCEPT ![h] = [IdleHandler EXCEPT !.kind = "repair", !.at = "repairing"]]
  /\ UNCHANGED <<cfg, trusted, fs, spawned, execVars, fnVars, revertNote, settings, lastPlan,
                 lastFailuresBrief, revertStore, opsRunning>>

\* Prompts, runs and repairs sent at any time: onMessage is started for
\* each message without waiting for the invocation before it.
InitRepair ==
  /\ settings \in [autoRun : BOOLEAN, autoRepair : BOOLEAN,
                   maxRepairAttempts : 0..MaxRepairAttempts]
  /\ ExtensionAtRest
  /\ NothingApplied
  /\ ExecutorAtRest
  /\ cfg = [dryRun |-> FALSE, allowShell |-> FALSE, allowInstall |-> FALSE]
  /\ trusted \in BOOLEAN
  /\ fs = [files |-> InitFiles, dirs |-> InitDirs]
  /\ spawned = <<>>

NextRepair ==
  \E h \in Handlers :
    \/ ReceivePrompt(h) /\ UNCHANGED opLog
    \/ (\E p \in GeneratedPlans : GeneratePlanReturns(h, p)) /\ UNCHANGED opLog
    \/ GenerationThrows(h) /\ UNCHANGED opLog
    \/ AfterRunInPrompt(h) /\ UNCHANGED opLog
    \/ (\E p \in GeneratedPlans : GenerateRepairPlanReturns(h, p)) /\ UNCHANGED opLog
    \/ ReceiveRun(h) /\ UNCHANGED opLog
    \/ ReceiveRepair(h) /\ UNCHANGED opLog
    \/ (\E p \in GeneratedPlans : ReceiveRunPlan(h, p)) /\ UNCHANGED opLog
    \/ StartRun(h) /\ UNCHANGED opLog
    \/ RunStep(h, "ok") /\ UNCHANGED opLog
    \/ FinishRun(h) /\ UNCHANGED opLog
    \/ EndRun(h) /\ UNCHANGED opLog

SpecRepair == InitRepair /\ [][NextRepair]_vars

\* ---------------------------------------------------------------------------
\* Auto-runs whose executePlan call throws, next to other invocations.
\* ---------------------------------------------------------------------------

\* A Plan whose root is the parent of the workspace folder.
PlanRootAbove == PlanOf(Some(pUp), <<Write(Some(pA), Some(cX))>>)

AbortPlans == {PlanWriteA, PlanRootAbove}

InitAbort ==
  /\ settings \in [autoRun : {TRUE}, autoRepair : BOOLEAN,
                   maxRepairAttempts : 0..MaxRepairAttempts]
  /\ ExtensionAtRest
  /\ NothingApplied
  /\ ExecutorAtRest
  /\ cfg = [dryRun |-> FALSE, allowShell |-> FALSE, allowInstall |-> FALSE]
  /\ trusted \in BOOLEAN
  /\ fs = [files |-> InitFiles, dirs |-> InitDirs]
  /\ spawned = <<>>

NextAbort ==
  \E h \in Handlers :
    \/ ReceivePrompt(h) /\ UNCHANGED opLog
    \/ (\E p \in AbortPlans : GeneratePlanReturns(h, p)) /\ UNCHANGED opLog
    \/ GenerationThrows(h) /\ UNCHANGED opLog
    \/ AfterRunInPrompt(h) /\ UNCHANGED opLog
    \/ (\E p \in AbortPlans : GenerateRepairPlanReturns(h, p)) /\ UNCHANGED opLog
    \/ (\E p \in AbortPlans : ReceiveRunPlan(h, p)) /\ UNCHANGED opLog
    \/ StartRun(h) /\ UNCHANGED opLog
    \/ RunStep(h, "ok") /\ UNCHANGED opLog
    \/ FinishRun(h) /\ UNCHANGED opLog
    \/ EndRun(h) /\ UNCHANGED opLog

SpecAbort == InitAbort /\ [][NextAbort]_vars

\* ---------------------------------------------------------------------------
\* coerceJsonToPlan (engine/plan.ts): from the generator's text to a Plan.
\* ---------------------------------------------------------------------------

\* Longest steps array of a generator output.
MaxEntries == 3

ErrParse == "Failed to parse JSON plan from model response."
ErrSyntax == "SyntaxError"

\* How the JSON object sits in the text: alone, in a ```json fence, with prose
\* around it, with braces that hold no valid JSON, or no braces at all.
Frames == {"bare", "fenced", "prose", "broken", "text"}

\* Entries of a steps array. Other("") stands for an entry whose s?.action is
\* undefined: null, a string, an object without an action.
Entries ==
  {Mkdir(Some(pD)), Write(Some(pA), Some(cX)), Shell(Some("make"), None),
   Other("delete"), Other("WRITE"), Other("")}

\* The sequences over S of length at most n.
SeqUpTo(S, n) == UNION {[1..k -> S] : k \in 0..n}

\* What the generator can answer: the text's frame and the fields of the
\* object in it; steps is None when it is not an array.
ModelOutputs ==
  [frame : Frames, goal : {None, Some("g")}, root : {None, Some(pD)},
   steps : {None} \cup {Some(st) : st \in SeqUpTo(Entries, MaxEntries)}]

\* JSON.parse(cleaned), then JSON.parse of the slice from the first { to the
\* last }: TRUE when one of them yields the object.
Parses(o) == o.frame \in {"bare", "fenced", "prose"}

\* plan.steps.filter(s => [...].includes(s?.action)), entry by entry.
RECURSIVE FilterKnown(_)
FilterKnown(st) ==
  IF st = <<>> THEN <<>>
  ELSE (IF Head(st).action \in KnownActions THEN <<Head(st)>> ELSE <<>>)
       \o FilterKnown(Tail(st))

Coerced(err, p) == [err |-> err, plan |-> p]

coerceJsonToPlan_NoFilter(o) ==
  IF ~Parses(o)
  THEN Coerced(IF o.frame = "text" THEN ErrParse ELSE ErrSyntax, PlanOf(None, <<>>))
  ELSE Coerced("", [goal |-> OrElse(o.goal, "(no summary)"),
                    root |-> Some(OrElse(o.root, pDot)),
                    steps |-> OrElse(o.steps, <<>>)])

coerceJsonToPlan(o) ==
  IF ~Parses(o)
  THEN Coerced(IF o.frame = "text" THEN ErrParse ELSE ErrSyntax, PlanOf(None, <<>>))
  ELSE Coerced("", [goal |-> OrElse(o.goal, "(no summary)"),
                    root |-> Some(OrElse(o.root, pDot)),
                    steps |-> FilterKnown(OrElse(o.steps, <<>>))])

\* The executor and the extension at rest, one generator output at hand.
InitCoerce ==
  /\ settings = DefaultSettings
  /\ ExtensionAtRest
  /\ ExecutorAtRest
  /\ cfg = [dryRun |-> TRUE, allowShell |-> FALSE, allowInstall |-> FALSE]
  /\ trusted = TRUE
  /\ fs = [files |-> InitFiles, dirs |-> InitDirs]
  /\ spawned = <<>>
  /\ arg \in {Some(o) : o \in ModelOutputs}
  /\ ret = None

\* coerceJsonToPlan is applied to the output.
NextCoerce ==
  \/ /\ ret = None
     /\ ret' = Some(coerceJsonToPlan(arg[1]))
     /\ UNCHANGED <<cfg, trusted, fs, spawned, execVars, extVars, arg>>

SpecCoerce == InitCoerce /\ [][NextCoerce]_vars

\* ---------------------------------------------------------------------------
\* stableStringify on payloads whose keys come in any order.
\* ---------------------------------------------------------------------------

\* Plans that differ from the first in goal, in root, in one step field, in
\* the number of steps and in the order of steps.
KeyPlans ==
  {PlanOf(None, <<Write(Some(pA), Some(cX))>>),
   [PlanOf(None, <<Write(Some(pA), Some(cX))>>) EXCEPT !.goal = "h"],
   PlanOf(Some(pD), <<Write(Some(pA), Some(cX))>>),
   PlanOf(None, <<Write(Some(pA), Some(cY))>>),
   PlanOf(None, <<Write(Some(pA), None)>>),
   PlanOf(None, <<Mkdir(Some(pD)), Write(Some(pA), Some(cX))>>),
   PlanOf(None, <<Write(Some(pA), Some(cX)), Mkdir(Some(pD))>>)}

\* The orders the members of a sequence can come in.
Orders(keys) ==
  {[n \in 1..Len(keys) |-> keys[f[n]]] : f \in Permutations(1..Len(keys))}

\* The payloads of a Plan: its object with the keys of the Plan and of every
\* step in any order.
PayloadsOf(p) ==
  {[plan |-> p, object |-> PlanObject(p, keys, stepKeys)] :
     keys \in Orders(PlanKeys(p)),
     stepKeys \in {sk \in [1..Len(p.steps) -> UNION {Orders(StepKeys(p.steps[j])) : j \in 1..Len(p.steps)}] :
                     \A j \in 1..Len(p.steps) : sk[j] \in Orders(StepKeys(p.steps[j]))}}

KeyPayloads == UNION {PayloadsOf(p) : p \in KeyPlans}

\* Two payloads at hand, everything else at rest.
InitKey ==
  /\ settings = DefaultSettings
  /\ ExtensionAtRest
  /\ ExecutorAtRest
  /\ cfg = [dryRun |-> TRUE, allowShell |-> FALSE, allowInstall |-> FALSE]
  /\ trusted = TRUE
  /\ fs = [files |-> InitFiles, dirs |-> InitDirs]
  /\ spawned = <<>>
  /\ arg \in {Some(<<a, b>>) : a \in KeyPayloads, b \in KeyPayloads}
  /\ ret = None

\* The keys of both payloads are computed.
NextKey ==
  \/ /\ ret = None
     /\ ret' = Some(<<JSONStringify(walk(arg[1][1].object)),
                      JSONStringify(walk(arg[1][2].object))>>)
     /\ UNCHANGED <<cfg, trusted, fs, spawned, execVars, extVars, arg>>

SpecKey == InitKey /\ [][NextKey]_vars

\* ---------------------------------------------------------------------------
\* generatePlan and generateRepairPlan (engine/gemini.ts) in the prompt and
\* repair branches of onMessage.
\* ---------------------------------------------------------------------------

\* What the proxy hands back as the output of the model: the object alone,
\* with prose around it, or text without an object; steps of a known and of
\* an unknown action.
GenEntries == {Write(Some(pA), Some(cX)), Other("delete")}

GenOutputs ==
  [frame : {"bare", "text"}, goal : {None, Some("g")}, root : {None},
   steps : {None} \cup {Some(st) : st \in SeqUpTo(GenEntries, 1)}
                  \cup {Some(<<Other("delete"), Write(Some(pA), Some(cX))>>)}]

\* normalizePlan(p): defaults for goal and root, steps as they are when they
\* are an array.
normalizePlan(o) ==
  [goal |-> OrElse(o.goal, ""),
   root |-> Some(OrElse(o.root, pDot)),
   steps |-> OrElse(o.steps, <<>>)]

\* parsePlanText(txt): JSON.parse of the text, then of its { ... } slice.
parsePlanText(o) ==
  IF ~Parses(o)
  THEN Coerced(IF o.frame = "text" THEN ErrParse ELSE ErrSyntax, PlanOf(None, <<>>))
  ELSE Coerced("", normalizePlan(o))

\* generatePlan / generateRepairPlan with the proxy answering ok: the Plan
\* is parsePlanText(output).
generatePlan(o) == parsePlanText(o)
generateRepairPlan(o) == parsePlanText(o)

InitGenerate ==
  /\ settings \in [autoRun : BOOLEAN, autoRepair : BOOLEAN, maxRepairAttempts : {1}]
  /\ ExtensionAtRest
  /\ NothingApplied
  /\ ExecutorAtRest
  /\ cfg = [dryRun |-> FALSE, allowShell |-> FALSE, allowInstall |-> FALSE]
  /\ trusted = TRUE
  /\ fs = [files |-> InitFiles, dirs |-> InitDirs]
  /\ spawned = <<>>

\* Prompts and repair requests handled one at a time.
NextGenerate ==
  \/ ReceivePrompt("h1") /\ UNCHANGED opLog
  \/ /\ \E o \in GenOutputs :
          /\ generatePlan(o).err = ""
          /\ GeneratePlanReturns("h1", generatePlan(o).plan)
     /\ UNCHANGED opLog
  \/ GenerationThrows("h1") /\ UNCHANGED opLog
  \/ StartRun("h1") /\ UNCHANGED opLog
  \/ RunStep("h1", "ok") /\ UNCHANGED opLog
  \/ FinishRun("h1") /\ UNCHANGED opLog
  \/ AfterRunInPrompt("h1") /\ UNCHANGED opLog
  \/ /\ \E o \in GenOutputs :
          /\ generateRepairPlan(o).err = ""
          /\ GenerateRepairPlanReturns("h1", generateRepairPlan(o).plan)
     /\ UNCHANGED opLog
  \/ ReceiveRepair("h1") /\ UNCHANGED opLog
  \/ EndRun("h1") /\ UNCHANGED opLog

SpecGenerate == InitGenerate /\ [][NextGenerate]_vars

\* ---------------------------------------------------------------------------
\* The proxy calls of one generatePlan / generateRepairPlan (engine/gemini.ts).
\* ---------------------------------------------------------------------------

PROVIDERS == {"gemini", "openai", "anthropic"}
DEFAULT_MODELS ==
  [gemini |-> "gemini-2.0-flash", openai |-> "gpt-4o",
   anthropic |-> "claude-3-5-sonnet-20240620"]

\* getCfg() of gemini.ts: the provider, the model (the setting, or the
\* provider's default when the setting is blank) and the proxy URL.
ProxySettings == [provider : PROVIDERS, modelSetting : {"", "my-model"}, apiProxyUrl : {"", "u"}]
ModelOf(st) ==
  IF st.modelSetting # "" THEN st.modelSetting ELSE DEFAULT_MODELS[st.provider]

ErrMissingUrl == "Missing proxy URL"
ErrInvalidUrl == "Invalid URL"

\* What a proxy call can resolve to inside callProxy: an output, a status
\* that is not ok, an empty output, or a fetch that throws.
ProxyFailures == {"Proxy error 500", "Empty output from proxy.", "fetch failed"}
ProxyOk(o) == [ok |-> TRUE, output |-> o, error |-> ""]
ProxyFailed(e) == [ok |-> FALSE, output |-> [frame |-> "text", goal |-> None,
                                              root |-> None, steps |-> None],
                   error |-> e]
ProxyReplies ==
  {ProxyOk(o) : o \in GenOutputs} \cup {ProxyFailed(e) : e \in ProxyFailures}

\* callProxy(url, ...): fetch throws for a blank URL, else the proxy answers.
callProxy(url, reply) == IF url = "" THEN ProxyFailed(ErrInvalidUrl) ELSE reply

\* Mutant: the error of the last call is raised.
FailureOf_LastCall(replies) == replies[Len(replies)].error

\* throw new Error(firstTry.error || "Proxy call failed."): callProxy never
\* yields an empty error.
FailureOf(replies) == replies[1].error

\* One generation in progress: where it is, the calls made, what they
\* resolved to, and what the function returned or threw.
Generation(at, calls, replies, err, p) ==
  [at |-> at, calls |-> calls, replies |-> replies, err |-> err, plan |-> p]

\* The function leaves with the outcome of parsePlanText(output).
Parsed(calls, replies, o) ==
  Generation("done", calls, replies, parsePlanText(o).err, parsePlanText(o).plan)

InitProxy ==
  /\ settings = DefaultSettings
  /\ ExtensionAtRest
  /\ ExecutorAtRest
  /\ cfg = [dryRun |-> TRUE, allowShell |-> FALSE, allowInstall |-> FALSE]
  /\ trusted = TRUE
  /\ fs = [files |-> InitFiles, dirs |-> InitDirs]
  /\ spawned = <<>>
  /\ arg \in {Some([fn |-> f, st |-> st]) :
                f \in {"generatePlan", "generateRepairPlan"}, st \in ProxySettings}
  /\ ret = None

\* The function is entered: generatePlan throws for a blank URL, otherwise
\* the first call goes to the configured provider and model.
EnterGeneration ==
  /\ ret = None
  /\ LET a == arg[1] IN
     IF a.fn = "generatePlan" /\ a.st.apiProxyUrl = ""
     THEN ret' = Some(Generation("done", <<>>, <<>>, ErrMissingUrl, PlanOf(None, <<>>)))
     ELSE ret' = Some(Generation("first",
                                 <<[provider |-> a.st.provider, model |-> ModelOf(a.st)]>>,
                                 <<>>, "", PlanOf(None, <<>>)))
  /\ UNCHANGED <<cfg, trusted, fs, spawned, execVars, extVars, arg>>

\* The first call resolves: its output is parsed, or the fallback call to
\* gemini is made, or the error is thrown.
FirstTryResolves(reply) ==
  /\ ret # None
  /\ ret[1].at = "first"
  /\ LET a == arg[1]
         g == ret[1]
         firstTry == callProxy(a.st.apiProxyUrl, reply)
     IN IF firstTry.ok
        THEN ret' = Some(Parsed(g.calls, <<firstTry>>, firstTry.output))
        ELSE IF a.st.provider # "gemini"
        THEN ret' = Some(Generation("fallback",
                           Append(g.calls, [provider |-> "gemini",
                                            model |-> DEFAULT_MODELS["gemini"]]),
                           <<firstTry>>, "", PlanOf(None, <<>>)))
        ELSE ret' = Some(Generation("done", g.calls, <<firstTry>>,
                                    FailureOf(<<firstTry>>), PlanOf(None, <<>>)))
  /\ UNCHANGED <<cfg, trusted, fs, spawned, execVars, extVars, arg>>

\* The fallback call resolves: its output is parsed or the error is thrown.
FallbackResolves(reply) ==
  /\ ret # None
  /\ ret[1].at = "fallback"
  /\ LET a == arg[1]
         g == ret[1]
         fallback == callProxy(a.st.apiProxyUrl, reply)
         replies == Append(g.replies, fallback)
     IN IF fallback.ok
        THEN ret' = Some(Parsed(g.calls, replies, fallback.output))
        ELSE ret' = Some(Generation("done", g.calls, replies,
                                    FailureOf(replies), PlanOf(None, <<>>)))
  /\ UNCHANGED <<cfg, trusted, fs, spawned, execVars, extVars, arg>>

NextProxy ==
  \/ EnterGeneration
  \/ \E reply \in ProxyReplies : FirstTryResolves(reply)
  \/ \E reply \in ProxyReplies : FallbackResolves(reply)

SpecProxy == InitProxy /\ [][NextProxy]_vars

------------------------------------------------------------------------------
(* Notions the properties are stated in *)

\* The filesystem before the run.
InitFs == [files |-> InitFiles, dirs |-> InitDirs]

\* The fsPath t is the directory r itself or a location inside it.
IsWithin(r, t) == Len(r) <= Len(t) /\ SubSeq(t, 1, Len(r)) = r

\* The relative path rel lexically resolves outside the Plan root.
LeavesRoot(rel) == ~IsWithin(root, Resolve(root, rel))

\* The paths a step references as its path or its cwd.
Referenced(step) ==
  CASE step.action = "mkdir" -> {OrElse(step.path, pDot)}
    [] step.action \in {"write", "append", "edit"} ->
         IF step.path = None THEN {} ELSE {step.path[1]}
    [] step.action \in {"shell", "install"} -> {OrElse(step.cwd, pDot)}
    [] OTHER -> {}

\* The steps executed so far, as indices into plan.steps and results.
Done == 1..Len(results)

------------------------------------------------------------------------------
(* Properties *)

\* C1: when executePlan returns, there is exactly one Result per step of
\* plan.steps, in step order, and the k-th Result is labelled "#k <action of
\* the k-th step>", k counted from 1.
ResultsMatchSteps ==
  pc = "done" =>
    /\ Len(results) = Len(plan.steps)
    /\ \A k \in 1..Len(plan.steps) :
         results[k].step = <<"#", k, plan.steps[k].action>>

\* C1 witness: a returned run of two or more steps with a success and a failure.
ResultsMatchStepsWitness ==
  /\ pc = "done"
  /\ Len(plan.steps) >= 2
  /\ \E j, k \in Done : results[j].ok /\ ~results[k].ok

\* C2 (as claimed): executing a step that references a path resolving
\* outside the Plan root, in dry-run or live mode, pushes a path-escape
\* failure Result and changes no file, no directory and starts no subprocess.
EscapingPathAlwaysBlocked ==
  [][(/\ pc = "running"
      /\ i' = i + 1
      /\ \E rel \in Referenced(plan.steps[i + 1]) : LeavesRoot(rel))
     => (/\ ~results'[i + 1].ok
         /\ results'[i + 1].error = ErrBlocked
         /\ fs' = fs
         /\ spawned' = spawned)]_vars

\* C3 (as claimed): every path withinWorkspace accepts is its root or a
\* location inside it; a sibling directory whose name begins with the
\* root's name is rejected.
SandboxAcceptsOnlyInside ==
  \A k \in 1..Len(sandboxCalls) :
    sandboxCalls[k].ok => IsWithin(sandboxCalls[k].root, sandboxCalls[k].target)

\* C4: in dry-run mode no file and no directory changes and no subprocess
\* is started, whatever the Plan and the other gates are.
DryRunChangesNothing ==
  cfg.dryRun => fs = InitFs /\ spawned = <<>>

\* C4 witness: a returned dry-run in which a write, an edit and a shell step succeeded.
DryRunChangesNothingWitness ==
  /\ cfg.dryRun
  /\ pc = "done"
  /\ \E j, k \in Done :
       /\ results[j].ok /\ plan.steps[j].action \in {"write", "edit"}
       /\ results[k].ok /\ plan.steps[k].action = "shell"

\* The step is well-formed in the sense of C5: required fields present,
\* path and cwd inside the Plan root, its permission gates enabled, and for
\* edit an existing target file.
WellFormed(step) ==
  /\ step.action \in KnownActions
  /\ \A rel \in Referenced(step) : ~LeavesRoot(rel)
  /\ step.action \in {"write", "append", "edit"} => step.path # None
  /\ step.action = "edit" =>
       /\ step.find # None
       /\ step.path # None => Resolve(root, step.path[1]) \in DOMAIN fs.files
  /\ step.action = "shell" => step.cmd # None /\ cfg.allowShell
  /\ step.action = "install" => cfg.allowInstall /\ cfg.allowShell

\* An edit step whose find is slash-framed around something that is no regular expression.
BadPattern(step) ==
  /\ step.action = "edit"
  /\ step.find # None
  /\ step.find[1] # <<>>
  /\ Head(step.find[1]) = "/"
  /\ step.find[1][Len(step.find[1])] = "/"
  /\ \E k \in 2..(Len(step.find[1]) - 1) : step.find[1][k] = "("

\* C5 (as claimed): in dry-run mode every well-formed step yields a success Result.
DryRunWellFormedSucceeds ==
  cfg.dryRun => \A k \in Done : WellFormed(plan.steps[k]) => results[k].ok

\* C5 (amended): in dry-run mode every well-formed step yields a success
\* Result, provided the find of an edit step, when it is slash-framed, frames
\* a valid regular expression.
DryRunWellFormedValidPatternSucceeds ==
  cfg.dryRun =>
    \A k \in Done :
      WellFormed(plan.steps[k]) /\ ~BadPattern(plan.steps[k]) => results[k].ok

\* C5 witness: a returned dry-run with a well-formed edit and a well-formed install step.
DryRunWellFormedWitness ==
  /\ cfg.dryRun
  /\ pc = "done"
  /\ \E j, k \in Done :
       /\ plan.steps[j].action = "edit" /\ ~BadPattern(plan.steps[j])
       /\ plan.steps[k].action = "install"
       /\ WellFormed(plan.steps[j]) /\ WellFormed(plan.steps[k])

\* The run was aborted as a whole before any step, leaving everything as it was.
AbortedUntouched ==
  /\ pc = "aborted"
  /\ i = 0
  /\ results = <<>>
  /\ executed = <<>>
  /\ fs = InitFs
  /\ spawned = <<>>

\* The Plan root executePlan was called with resolves inside the workspace folder.
PlanRootInside ==
  IsWithin(WorkspaceFolder, Resolve(WorkspaceFolder, OrElse(plan.root, pDot)))

\* C6 (as claimed): a live run in an untrusted workspace aborts with the
\* trust error before any step: no Result, no change, no subprocess; a
\* dry-run never raises the trust error.
UntrustedLiveAbortsWithTrustError ==
  /\ (pc # "idle" /\ ~cfg.dryRun /\ ~trusted) =>
       AbortedUntouched /\ abortError = ErrTrust
  /\ cfg.dryRun => abortError # ErrTrust

\* C6 (amended): a live run in an untrusted workspace aborts before any
\* step (no Result, no change, no subprocess): with the trust error when the
\* Plan root resolves inside the workspace folder, and with the trust error
\* or the path-escape error of the root's sandbox check, which is made
\* first, when it does not; a dry-run never raises the trust error and,
\* with a root inside the workspace folder, is not aborted.
UntrustedLiveAborts ==
  /\ (pc # "idle" /\ ~cfg.dryRun /\ ~trusted) =>
       /\ AbortedUntouched
       /\ abortError \in {ErrTrust, ErrBlocked}
       /\ PlanRootInside => abortError = ErrTrust
       /\ abortError = ErrBlocked => ~PlanRootInside
  /\ cfg.dryRun => abortError # ErrTrust
  /\ (cfg.dryRun /\ PlanRootInside) => pc # "aborted"

\* C6 witness: a live run of a non-empty Plan was aborted by the trust gate.
UntrustedLiveAbortsWitness ==
  /\ pc = "aborted"
  /\ abortError = ErrTrust
  /\ ~cfg.dryRun
  /\ ~trusted
  /\ plan.steps # <<>>

\* No subprocess was started unless allowShell is on, dry-run is off and the
\* workspace is trusted; with allowShell off every shell step failed.
ShellGated ==
  /\ spawned # <<>> => cfg.allowShell /\ ~cfg.dryRun /\ trusted
  /\ ~cfg.allowShell =>
       \A k \in Done : plan.steps[k].action = "shell" => ~results[k].ok

\* C7 (as claimed): a subprocess is started only if allowShell is on,
\* dry-run is off and the workspace is trusted; with allowShell off every
\* shell step fails; with allowShell on, in dry-run, a shell step yields
\* success with empty output.
ShellGatedAndDryRunShellSucceeds ==
  /\ ShellGated
  /\ (cfg.allowShell /\ cfg.dryRun) =>
       \A k \in Done :
         plan.steps[k].action = "shell" => results[k].ok /\ results[k].out = "empty"

\* C7 (amended): as claimed, the last part for the shell steps that have a
\* cmd and a cwd resolving inside the Plan root (the others fail in dry-run too).
ShellGatedAndDryRunShellWithCmdSucceeds ==
  /\ ShellGated
  /\ (cfg.allowShell /\ cfg.dryRun) =>
       \A k \in Done :
         (/\ plan.steps[k].action = "shell"
          /\ plan.steps[k].cmd # None
          /\ ~LeavesRoot(OrElse(plan.steps[k].cwd, pDot)))
           => results[k].ok /\ results[k].out = "empty"

\* C7 witness: a returned dry-run with allowShell on in which one shell
\* step succeeded with empty output and a shell step without cmd failed.
ShellGatedWitness ==
  /\ pc = "done"
  /\ cfg.dryRun
  /\ cfg.allowShell
  /\ \E j, k \in Done :
       /\ plan.steps[j].action = "shell" /\ results[j].ok /\ results[j].out = "empty"
       /\ plan.steps[k].action = "shell" /\ ~results[k].ok

StepsInOrderEachOnce ==
  /\ Len(executed) = i
  /\ \A k \in 1..Len(executed) : executed[k] = k
  /\ Len(results) = Len(executed)
  /\ pc = "done" => Len(executed) = Len(plan.steps)
  /\ \A k \in Done :
       /\ ~results[k].ok => results[k].error # "" /\ results[k].step[2] = k
       /\ plan.steps[k].action \notin KnownActions =>
            ~results[k].ok /\ results[k].error = ErrUnknown
       /\ (plan.steps[k].action = "write" /\ plan.steps[k].path = None) =>
            ~results[k].ok /\ results[k].error = ErrWritePath
       /\ (plan.steps[k].action = "shell" /\ plan.steps[k].cmd # None /\ ~cfg.allowShell) =>
            ~results[k].ok /\ results[k].error = ErrShellOff

\* C9 witness: a returned run whose first step failed and whose second step succeeded.
StepsInOrderWitness ==
  /\ pc = "done"
  /\ Len(results) >= 2
  /\ ~results[1].ok
  /\ results[2].ok

\* C10 (as claimed): a step's error never leaves executePlan, which returns
\* a complete Results list; the only whole-run abort is the trust violation.
OnlyTrustAborts ==
  /\ pc = "aborted" => abortError = ErrTrust /\ results = <<>>
  /\ pc = "done" => Len(results) = Len(plan.steps)

\* C10 (amended): a step's error never leaves executePlan, which returns a
\* complete Results list; the run is aborted as a whole, before any step,
\* only for the trust violation or when the sandbox rejects the Plan's root.
OnlyTrustOrRootAborts ==
  /\ pc = "aborted" =>
       /\ abortError \in {ErrTrust, ErrBlocked}
       /\ abortError = ErrTrust => ~cfg.dryRun /\ ~trusted
       /\ abortError = ErrBlocked => ~PlanRootInside
       /\ results = <<>>
       /\ executed = <<>>
  /\ pc = "done" => Len(results) = Len(plan.steps) /\ abortError = ""
  /\ pc = "running" => abortError = ""

\* C10 witness: a run of two or more steps, every one of which failed, returned its Results.
OnlyTrustOrRootAbortsWitness ==
  /\ pc = "done"
  /\ Len(results) >= 2
  /\ \A k \in Done : ~results[k].ok

\* The step the loop is about to take is an edit whose path names no
\* existing file, and the loop takes it.
EditOfMissingTarget ==
  /\ pc = "running"
  /\ i < Len(plan.steps)
  /\ i' = i + 1
  /\ plan.steps[i + 1].action = "edit"
  /\ plan.steps[i + 1].path # None
  /\ Resolve(root, plan.steps[i + 1].path[1]) \notin DOMAIN fs.files

\* The step just taken failed for the missing file and the filesystem is as before.
MissingFileFailure ==
  /\ ~results'[i + 1].ok
  /\ results'[i + 1].error = ErrMissingFile
  /\ fs' = fs

\* C17 (as claimed): an edit step whose target file does not exist fails with
\* the missing-file failure and creates no file, in live and in dry-run mode.
EditOfMissingFileFails == [][EditOfMissingTarget => MissingFileFailure]_vars

\* C17 (amended): an edit step that has a find string and a path the sandbox
\* accepts, and whose target file does not exist, fails with the missing-file
\* failure and leaves the filesystem as it was, in live and in dry-run mode.
EditWithFindOfMissingFileFails ==
  [][(/\ EditOfMissingTarget
      /\ plan.steps[i + 1].find # None
      /\ withinWorkspace(root, plan.steps[i + 1].path[1]).ok) => MissingFileFailure]_vars

\* C17 witness: a live run whose only step, an edit of d/b with a find string,
\* failed for the missing file, and there is still no file d/b.
EditOfMissingFileWitness ==
  /\ pc = "done"
  /\ ~cfg.dryRun
  /\ plan.root = None
  /\ plan.steps = <<Edit(Some(pDB), Some(<<"o">>), None)>>
  /\ results[1].error = ErrMissingFile
  /\ <<nW, nD, nB>> \notin DOMAIN fs.files

\* C20: after a successful live write step the file holds exactly the step's
\* content (the empty text when the step has none), whatever it held before,
\* so that writing the same content twice does not duplicate it.
LiveWriteYieldsContent ==
  (/\ ~cfg.dryRun
   /\ i >= 1
   /\ Len(results) = i
   /\ plan.steps[i].action = "write"
   /\ results[i].ok) =>
     LET t == Resolve(root, plan.steps[i].path[1]) IN
     /\ t \in DOMAIN fs.files
     /\ fs.files[t] = OrElse(plan.steps[i].content, <<>>)

\* C20 witness: the same write of X to the existing file a succeeded twice
\* in a live run, and a holds X.
LiveWriteTwiceWitness ==
  /\ pc = "done"
  /\ ~cfg.dryRun
  /\ plan.steps = <<Write(Some(pA), Some(cX)), Write(Some(pA), Some(cX))>>
  /\ results[1].ok /\ results[2].ok
  /\ fs.files[<<nW, nA>>] = cX

\* find has the framing /body/flags: a leading slash, a closing slash, then
\* zero or more flag letters.
PatternFramed(find) ==
  /\ Len(find) >= 2
  /\ find[1] = "/"
  /\ \E k \in 2..Len(find) :
       /\ find[k] = "/"
       /\ \A j \in (k + 1)..Len(find) : find[j] # "/"

\* The body and the flags of a pattern-framed find.
BodyOf(find) == SubSeq(find, 2, LastIndexOf(find, "/") - 1)
FlagsOf(find) == SubSeq(find, LastIndexOf(find, "/") + 1, Len(find))

\* The step the loop is about to take is a live edit, with a find, of the
\* existing file a, and the loop takes it.
LiveEditOfA ==
  /\ pc = "running"
  /\ ~cfg.dryRun
  /\ i < Len(plan.steps)
  /\ i' = i + 1
  /\ plan.steps[i + 1].action = "edit"
  /\ plan.steps[i + 1].path = Some(pA)
  /\ plan.steps[i + 1].find # None
  /\ <<nW, nA>> \in DOMAIN fs.files

\* C18: a live edit whose find is framed as /body/flags succeeds and leaves
\* in the file the regular-expression substitution built from body and flags:
\* /foo/gi with replace "bar" turns "fooFOObaz" into "barbarbaz".
FramedFindIsPatternSubstitution ==
  [][(LiveEditOfA /\ PatternFramed(plan.steps[i + 1].find[1])) =>
       LET step == plan.steps[i + 1] IN
       /\ results'[i + 1].ok
       /\ fs'.files[<<nW, nA>>] =
            RegExpReplace(fs.files[<<nW, nA>>], BodyOf(step.find[1]),
                          FlagsOf(step.find[1]), OrElse(step.replace, <<>>))]_vars

\* C19: a live edit whose find is a non-empty text without the /body/flags
\* framing succeeds and replaces every non-overlapping occurrence of that
\* text, so that content without an occurrence stays as it is: find "foo"
\* with replace "bar" turns "foofoo" into "barbar".
UnframedFindReplacesEveryOccurrence ==
  [][(/\ LiveEditOfA
      /\ plan.steps[i + 1].find[1] # <<>>
      /\ ~PatternFramed(plan.steps[i + 1].find[1])) =>
       LET step == plan.steps[i + 1] IN
       /\ results'[i + 1].ok
       /\ fs'.files[<<nW, nA>>] =
            ReplaceEvery(fs.files[<<nW, nA>>], step.find[1],
                         OrElse(step.replace, <<>>), FALSE)]_vars

\* The files named by the write, append and edit steps of p, as fsPaths.
TouchedTargets(p) ==
  {Resolve(Resolve(WorkspaceFolder, OrElse(p.root, pDot)), p.steps[k].path[1]) :
     k \in {j \in 1..Len(p.steps) :
              /\ p.steps[j].action \in {"write", "append", "edit"}
              /\ p.steps[j].path # None}}

\* The file t is in f what it was before the first message: absent if it
\* was absent, with the same text if it was there.
AsAtFirst(f, t) ==
  IF t \in DOMAIN InitFiles
  THEN t \in DOMAIN f.files /\ f.files[t] = InitFiles[t]
  ELSE t \notin DOMAIN f.files

\* C11: when a Plan has been executed once, live, from the initial
\* filesystem and has then been reverted, every file named by its write,
\* append and edit steps is as it was initially: same text, or absent again.
RevertRestoresTouchedFiles ==
  \A p \in CardPlans :
    opLog = <<[op |-> "run", plan |-> p, live |-> TRUE], RevertEntry(p)>> =>
      \A t \in TouchedTargets(p) : AsAtFirst(fs, t)

\* C12: a RevertRecord, once in the store, stays in it with the
\* before-mapping it was first given, whatever is executed or reverted.
RecordNeverChanges ==
  [][\A id \in DOMAIN revertStore :
       /\ id \in DOMAIN revertStore'
       /\ revertStore'[id].before = revertStore[id].before]_vars

\* C13: a revert leaves the store of RevertRecords as it is, and a revert
\* that directly follows a revert of the same Plan leaves the filesystem as
\* that first revert left it.
RevertOnlyReadsAndTwiceIsOnce ==
  [][\A p \in CardPlans :
       opLog' = Append(opLog, RevertEntry(p)) =>
         /\ revertStore' = revertStore
         /\ (opLog # <<>> /\ opLog[Len(opLog)] = RevertEntry(p)) => fs' = fs]_vars

\* C13 witness: the Plan that creates d/b and appends to a was executed live
\* and then reverted twice in a row; its record is still in the store, d/b
\* is gone and a holds its first text.
RevertTwiceWitness ==
  /\ opLog = <<[op |-> "run", plan |-> PlanNewThenAppend, live |-> TRUE],
               RevertEntry(PlanNewThenAppend), RevertEntry(PlanNewThenAppend)>>
  /\ stableStringify(PlanNewThenAppend) \in DOMAIN revertStore
  /\ <<nW, nD, nB>> \notin DOMAIN fs.files
  /\ fs.files[<<nW, nA>>] = cFoo

\* C14: in the auto-run of a prompt, the repair Plans requested from the
\* generator never outnumber maxRepairAttempts, and none is requested when
\* autoRepair is off or maxRepairAttempts is 0.
RepairRequestsBounded ==
  \A h \in Handlers :
    hd[h].kind = "prompt" =>
      /\ hd[h].requested <= settings.maxRepairAttempts
      /\ (~settings.autoRepair \/ settings.maxRepairAttempts = 0) => hd[h].requested = 0

\* C14 witness: the only message was a prompt; with maxRepairAttempts = 2 its
\* loop has requested two repair Plans, and the Plan just executed failed again.
RepairRequestsExhaustedWitness ==
  /\ received = 1
  /\ settings.maxRepairAttempts = 2
  /\ hd["h1"].kind = "prompt"
  /\ hd["h1"].at = "saving"
  /\ hd["h1"].requested = 2
  /\ \E k \in 1..Len(hd["h1"].results) : ~hd["h1"].results[k].ok
  /\ lastFailuresBrief # <<>>

\* The Plan the invocation h has just executed returned Results, none failed.
RanWithoutFailure(h) ==
  /\ hd[h].at = "saving"
  /\ ~hd[h].aborted
  /\ \A k \in 1..Len(hd[h].results) : hd[h].results[k].ok

\* C15: the auto-repair loop of a prompt requests no further repair Plan once
\* the Plan it has just executed has no failed Result, nor once its attempts
\* are used up.
LoopStopsOnSuccessOrExhaustion ==
  [][\A h \in Handlers :
       (/\ hd[h].kind = "prompt"
        /\ \/ RanWithoutFailure(h)
           \/ hd[h].at = "saving" /\ hd[h].attempts >= settings.maxRepairAttempts)
         => hd'[h].at # "repairing"]_vars

\* C16: at no time are two executePlan calls under way.
AtMostOneExecution ==
  Cardinality({h \in Handlers : hd[h].at = "executing"}) <= 1

\* The step the loop is about to take is a live append with a path, and
\* the loop takes it and the step succeeds.
LiveAppendSucceeds ==
  /\ pc = "running"
  /\ ~cfg.dryRun
  /\ i < Len(plan.steps)
  /\ i' = i + 1
  /\ plan.steps[i + 1].action = "append"
  /\ plan.steps[i + 1].path # None
  /\ results'[i + 1].ok

\* C21: a successful live append of B leaves in the file the text it held
\* followed by B, and exactly B when there was no file; so a write of "X"
\* followed by an append of "Y" leaves "XY".
LiveAppendAddsAtEnd ==
  [][LiveAppendSucceeds =>
       LET step == plan.steps[i + 1]
           t == Resolve(root, step.path[1])
           B == OrElse(step.content, <<>>)
       IN /\ t \in DOMAIN fs'.files
          /\ fs'.files[t] = IF t \in DOMAIN fs.files THEN fs.files[t] \o B ELSE B]_vars

\* C21 witness: a live run wrote X to a and then appended Y to it; a holds XY.
WriteThenAppendWitness ==
  /\ pc = "done"
  /\ ~cfg.dryRun
  /\ plan.root = None
  /\ plan.steps = <<Write(Some(pA), Some(cX)), AppendTo(Some(pA), Some(cY))>>
  /\ results[1].ok /\ results[2].ok
  /\ fs.files[<<nW, nA>>] = <<"X", "Y">>

\* The distinct paths named by the write, append and edit steps of p.
TouchedRels(p) ==
  {p.steps[k].path[1] :
     k \in {j \in 1..Len(p.steps) :
              /\ p.steps[j].action \in {"write", "append", "edit"}
              /\ p.steps[j].path # None}}

\* What a snapshot should hold for the file t of the initial filesystem.
PriorAtFirst(t) == IF t \in DOMAIN InitFiles THEN Some(InitFiles[t]) ELSE None

\* The first run of the behaviour has returned its Results to runPlan.
FirstRunReturned ==
  /\ opLog = <<>>
  /\ hd["h1"].at = "saving"
  /\ ~hd["h1"].aborted

\* C23: after the first Plan has been executed, the store holds its
\* RevertRecord, with exactly one entry for every distinct path of its write,
\* append and edit steps; the entry holds the text the file had before the
\* execution, or the absence marker.
RecordCapturesEveryTouchedPath ==
  LET p == hd["h1"].plan
      id == stableStringify(p)
  IN (FirstRunReturned /\ TouchedRels(p) # {}) =>
       /\ id \in DOMAIN revertStore
       /\ Len(revertStore[id].before) = Cardinality(TouchedRels(p))
       /\ \A rel \in TouchedRels(p) :
            \E k \in 1..Len(revertStore[id].before) :
              /\ revertStore[id].before[k].rel = rel
              /\ revertStore[id].before[k].prior =
                   PriorAtFirst(Resolve(Resolve(WorkspaceFolder, OrElse(p.root, pDot)), rel))

\* C24: no record of the store is empty, and a run is given up before its
\* steps only when the Plan root is rejected or the trust gate closes: a run
\* whose snapshot failed goes through all its steps like any other.
RecordsNonEmptyAndSnapshotNotFatal ==
  /\ \A id \in DOMAIN revertStore : revertStore[id].before # <<>>
  /\ \A h \in Handlers :
       hd[h].at = "saving" =>
         IF hd[h].aborted
         THEN \/ ~withinWorkspace(WorkspaceFolder, OrElse(hd[h].plan.root, pDot)).ok
              \/ ~cfg.dryRun /\ ~trusted
         ELSE Len(hd[h].results) = Len(hd[h].plan.steps)

\* C24 witness: the snapshot of the Plan that first writes outside the
\* workspace failed at that path; the Plan was executed all the same, both
\* steps have a Result and d/b is written, and no record was stored.
SnapshotFailedRunWitness ==
  /\ hd["h1"].at = "saving"
  /\ hd["h1"].plan = PlanOutsideThenNew
  /\ hd["h1"].before = <<>>
  /\ Len(hd["h1"].results) = 2
  /\ <<nW, nD, nB>> \in DOMAIN fs.files
  /\ revertStore = <<>>

\* The fsPaths of the entries of a record.
CapturedTargets(record) ==
  {Resolve(Resolve(WorkspaceFolder, record.root), record.before[k].rel) :
     k \in 1..Len(record.before)}

\* C25: a revert of a Plan that has a record changes no file other than the
\* record's paths, leaves every directory and every started command as it
\* was, and reports as count the number of the record's paths.
RevertTouchesCapturedPathsOnly ==
  [][\A p \in CardPlans :
       (/\ opLog' = Append(opLog, RevertEntry(p))
        /\ stableStringify(p) \in DOMAIN revertStore) =>
          LET record == revertStore[stableStringify(p)] IN
          /\ fs'.dirs = fs.dirs
          /\ spawned' = spawned
          /\ \A t \in (DOMAIN fs.files) \cup (DOMAIN fs'.files) :
               t \notin CapturedTargets(record) =>
                 /\ t \in DOMAIN fs.files
                 /\ t \in DOMAIN fs'.files
                 /\ fs'.files[t] = fs.files[t]
          /\ revertNote' = [type |-> "model", count |-> Len(record.before)]]_vars

\* C25 witness: the Plan that makes d, runs make and writes d/b was executed
\* live and reverted: d/b is gone, the directory d and the started command
\* are still there, a is untouched, and one reverted file was reported.
RevertKeepsDirsAndCommandsWitness ==
  /\ opLog = <<[op |-> "run", plan |-> PlanMkdirShellWrite, live |-> TRUE],
               RevertEntry(PlanMkdirShellWrite)>>
  /\ <<nW, nD, nB>> \notin DOMAIN fs.files
  /\ <<nW, nD>> \in fs.dirs
  /\ Len(spawned) = 1
  /\ fs.files[<<nW, nA>>] = cFoo
  /\ revertNote = [type |-> "model", count |-> 1]

\* C26: the store has one record per Plan key, and once a Plan has been
\* executed its record is the snapshot taken for that execution, whatever
\* record an earlier execution had stored.
LastExecutionOwnsRecord ==
  \A h \in Handlers :
    (hd[h].at = "saving" /\ ~hd[h].aborted /\ hd[h].before # <<>>) =>
      /\ stableStringify(hd[h].plan) \in DOMAIN revertStore
      /\ revertStore[stableStringify(hd[h].plan)].before = hd[h].before

\* C26 witness: the write of X to a was executed live twice; the record of
\* the Plan holds X for a, the text before the second execution.
SecondExecutionRecordWitness ==
  /\ opLog = <<[op |-> "run", plan |-> PlanWriteA, live |-> TRUE]>>
  /\ hd["h1"].at = "saving"
  /\ hd["h1"].plan = PlanWriteA
  /\ ~hd["h1"].aborted
  /\ revertStore[stableStringify(PlanWriteA)].before = <<[rel |-> pA, prior |-> Some(cX)]>>

\* The positions of the failed Results in rs.
FailedAt(rs) == {k \in 1..Len(rs) : ~rs[k].ok}

\* C28: when an execution has returned its Results, the failure brief is
\* null if none failed, and else has one line per failed Result of that
\* execution, label and error, in step order, and nothing else.
BriefMatchesLatestResults ==
  LET rs == hd["h1"].results IN
  (hd["h1"].at = "saving" /\ ~hd["h1"].aborted) =>
     /\ Len(lastFailuresBrief) = Cardinality(FailedAt(rs))
     /\ \A k \in FailedAt(rs) :
          LET n == Cardinality({j \in FailedAt(rs) : j <= k}) IN
          lastFailuresBrief[n] = [step |-> <<"#", k, hd["h1"].plan.steps[k].action>>,
                                  error |-> rs[k].error]

\* C28 witness: after a run whose edit failed for the missing file, the run
\* of the Plan whose first write is blocked and whose second succeeds has
\* returned; the brief is the one line of that blocked write.
BriefOfLatestRunWitness ==
  /\ Len(opLog) = 1
  /\ opLog[1].plan = PlanEditNew
  /\ hd["h1"].at = "saving"
  /\ hd["h1"].plan = PlanOutsideThenNew
  /\ Len(hd["h1"].results) = 2
  /\ hd["h1"].results[2].ok
  /\ lastFailuresBrief = <<[step |-> <<"#", 1, "write">>, error |-> ErrBlocked]>>

\* The positions of an output's steps array that carry a known action.
KnownAt(st) == {k \in 1..Len(st) : st[k].action \in KnownActions}

\* The position of the j-th known entry of st.
NthKnown(st, j) ==
  CHOOSE k \in KnownAt(st) : Cardinality({m \in KnownAt(st) : m <= k}) = j

\* C22: whenever the generator's text holds a JSON object, coerceJsonToPlan
\* returns a Plan: its steps are the entries of the steps array that carry
\* one of the six known actions, each once and in their original order, and
\* the other entries are dropped without an error.
CoerceKeepsKnownEntriesInOrder ==
  (ret # None /\ Parses(arg[1])) =>
    LET st  == OrElse(arg[1].steps, <<>>)
        out == ret[1].plan.steps
    IN /\ ret[1].err = ""
       /\ Len(out) = Cardinality(KnownAt(st))
       /\ \A j \in 1..Len(out) : out[j] = st[NthKnown(st, j)]

\* C22 witness: an array of three entries went through, its first and last
\* known and different, its middle one unknown.
CoerceDropsMiddleWitness ==
  /\ ret # None
  /\ arg[1].frame = "prose"
  /\ arg[1].steps = Some(<<Shell(Some("make"), None), Other("delete"), Mkdir(Some(pD))>>)
  /\ ret[1].plan.steps = <<Shell(Some("make"), None), Mkdir(Some(pD))>>

\* C27: two payloads get the same RevertRecord key exactly when they are
\* payloads of the same Plan: the order of the keys of the Plan object and of
\* the step objects does not count, and a difference in goal, root, a step
\* field or the order of the steps gives another key. The key of a payload is
\* the key the Plan has in the store.
KeyIsPlanContent ==
  ret # None =>
    /\ (ret[1][1] = ret[1][2]) <=> (arg[1][1].plan = arg[1][2].plan)
    /\ ret[1][1] = stableStringify(arg[1][1].plan)

\* C27 witness: the keys were computed for two payloads of one two-step Plan
\* whose objects list their keys in different orders.
KeyOfReorderedPayloadWitness ==
  /\ ret # None
  /\ arg[1][1].plan = PlanOf(None, <<Mkdir(Some(pD)), Write(Some(pA), Some(cX))>>)
  /\ arg[1][2].plan = arg[1][1].plan
  /\ arg[1][1].object[1][1] = "steps"
  /\ arg[1][2].object[1][1] = "goal"
  /\ arg[1][1].object[1][2][2][1][1] = "path"
  /\ arg[1][2].object[2][2][2][1][1] = "content"
  /\ ret[1][1] = ret[1][2]

\* C29: when the Plan's root names a place outside the workspace folder,
\* executePlan throws on the root check and runs no step: no step is entered,
\* no file or directory changes and nothing is spawned, dry-run or live.
EscapingRootRunsNothing ==
  (pc # "idle" /\ ~IsWithin(WorkspaceFolder, Resolve(WorkspaceFolder, OrElse(plan.root, pDot)))) =>
    /\ pc = "aborted"
    /\ abortError = ErrBlocked
    /\ executed = <<>>
    /\ fs = InitFs
    /\ spawned = <<>>

\* C30: a step whose action is none of the six gets the unknown-action
\* failure as its Result and no other step does, and no Plan that
\* generatePlan or generateRepairPlan returned holds such a step.
UnknownActionOnlyByDirectConstruction ==
  /\ \A h \in Handlers : \A j \in 1..Len(hd[h].results) :
       (hd[h].plan.steps[j].action \notin KnownActions)
         <=> (~hd[h].results[j].ok /\ hd[h].results[j].error = ErrUnknown)
  /\ \A h \in Handlers : hd[h].kind \in {"prompt", "repair"} =>
       \A j \in 1..Len(hd[h].plan.steps) : hd[h].plan.steps[j].action \in KnownActions
  /\ lastPlan # None =>
       \A j \in 1..Len(lastPlan[1].steps) : lastPlan[1].steps[j].action \in KnownActions

\* C31: coerceJsonToPlan returns a Plan exactly when the fence-stripped text
\* parses as a whole or its slice from the first { to the last } parses, and
\* in every other case it throws the plan-parse error and no other.
CoercionFailsOnlyWithParseError ==
  ret # None =>
    /\ (ret[1].err = "") <=> Parses(arg[1])
    /\ ~Parses(arg[1]) => ret[1].err = ErrParse

\* The loop takes an install step that names no package while installs are
\* allowed.
EmptyInstallTaken ==
  /\ pc = "running"
  /\ cfg.allowInstall
  /\ i < Len(plan.steps)
  /\ i' = i + 1
  /\ plan.steps[i + 1].action = "install"
  /\ OrElse(plan.steps[i + 1].packages, <<>>) = <<>>

\* C32: with allowInstall on, an install step whose package list is empty or
\* absent gets a success Result with empty output, and taking it starts no
\* subprocess and changes no file, in dry-run and in live mode.
EmptyInstallIsNoOp ==
  [][EmptyInstallTaken =>
       /\ results'[i + 1].ok
       /\ results'[i + 1].out = "empty"
       /\ spawned' = spawned
       /\ fs' = fs]_vars

\* C32 witness: a live run with shell and install allowed took an install
\* step without packages after a shell step that was spawned.
EmptyInstallWitness ==
  /\ pc = "done"
  /\ ~cfg.dryRun /\ cfg.allowInstall /\ cfg.allowShell
  /\ plan.steps = <<Shell(Some("make"), None), Install(None, FALSE, Some(pUpO))>>
  /\ results[2].ok
  /\ Len(spawned) = 1

\* C33: one generation makes at most two proxy calls; a second call is to
\* gemini with gemini's default model and is made only after the first call
\* failed with a configured provider other than gemini; after a first call
\* that succeeded there is no other call; and when calls were made and none
\* succeeded, the error thrown is the error of the first call.
AtMostOneFallback ==
  ret # None =>
    LET g == ret[1] IN
    /\ Len(g.calls) <= 2
    /\ Len(g.calls) = 2 =>
         /\ g.calls[2] = [provider |-> "gemini", model |-> "gemini-2.0-flash"]
         /\ Len(g.replies) >= 1 /\ ~g.replies[1].ok
         /\ arg[1].st.provider # "gemini"
    /\ (Len(g.replies) >= 1 /\ g.replies[1].ok) => Len(g.calls) = 1
    /\ (g.at = "done" /\ g.replies # <<>> /\ \A k \in 1..Len(g.replies) : ~g.replies[k].ok)
         => g.err = g.replies[1].error

\* C33 witness: a repair-plan generation with provider openai failed twice
\* with different errors and threw.
FallbackFailedWitness ==
  /\ ret # None
  /\ arg[1].fn = "generateRepairPlan"
  /\ arg[1].st.provider = "openai"
  /\ ret[1].at = "done"
  /\ Len(ret[1].calls) = 2
  /\ ret[1].replies[1].error = "Proxy error 500"
  /\ ret[1].replies[2].error = "fetch failed"
  /\ ret[1].err = "Proxy error 500"

\* C34: in a trusted workspace with subprocesses that succeed, the live run
\* of a Plan reports, step by step, the success or failure that the dry-run
\* of the same Plan on the same files reported under the same gates.
DryRunPreviewsLive ==
  (ret # None /\ ~cfg.dryRun /\ pc \in {"done", "aborted"}) =>
    /\ (pc = "aborted") = ret[1].aborted
    /\ Len(results) = Len(ret[1].results)
    /\ \A k \in 1..Len(results) : results[k].ok = ret[1].results[k].ok

\* The record of the Plan that h ran holds what the snapshot of that run
\* read, and that is what the files hold now.
RecordIsSnapshotOf(h) ==
  LET p == hd[h].plan
      id == stableStringify(p)
      rootUri == Resolve(WorkspaceFolder, OrElse(p.root, pDot))
  IN /\ id \in DOMAIN revertStore
     /\ revertStore[id].before = hd[h].before
     /\ \A k \in 1..Len(hd[h].before) :
          LET t == Resolve(rootUri, hd[h].before[k].rel)
          IN hd[h].before[k].prior = (IF t \in DOMAIN fs.files THEN Some(fs.files[t]) ELSE None)

\* C35 (as claimed): after a dry-run execution of a Plan that names a path in
\* a write, append or edit step, the store holds the Plan's record with the
\* contents read just before the dry-run.
DryRunOfTouchingPlanStoresRecord ==
  \A h \in Handlers :
    (hd[h].at = "saving" /\ ~hd[h].aborted /\ cfg.dryRun /\ TouchedRels(hd[h].plan) # {})
      => RecordIsSnapshotOf(h)

\* C35 (amended): after a dry-run execution of a Plan whose snapshot captured
\* at least one path, the store holds the Plan's record with the contents
\* read just before the dry-run, whatever record the Plan had before.
DryRunWithSnapshotStoresRecord ==
  \A h \in Handlers :
    (hd[h].at = "saving" /\ ~hd[h].aborted /\ cfg.dryRun /\ hd[h].before # <<>>)
      => RecordIsSnapshotOf(h)

\* C35 witness: the write of X to a was executed live, then again as a
\* dry-run: the record that held the first text of a now holds X.
DryRunReplacedRecordWitness ==
  /\ hd["h1"].at = "saving"
  /\ hd["h1"].plan = PlanWriteA
  /\ ~hd["h1"].aborted
  /\ cfg.dryRun
  /\ fs.files[<<nW, nA>>] = cX
  /\ revertStore[stableStringify(PlanWriteA)].before = <<[rel |-> pA, prior |-> Some(cX)]>>

\* C36: when executePlan throws for the trust gate or the Plan root, runPlan
\* leaves the store as it is and sets the failure brief to the single
\* runtime-exception line; and when that run was the auto-run of a prompt
\* with autoRepair on and attempts left, the next thing its loop does is
\* request a repair Plan.
AbortedRunIsRepaired ==
  [][\A h \in Handlers :
       /\ (hd[h].at = "ready" /\ hd'[h].at = "saving") =>
            /\ hd'[h].aborted
            /\ revertStore' = revertStore
            /\ Len(lastFailuresBrief') = 1
            /\ lastFailuresBrief'[1].step = <<"runtime exception">>
            /\ lastFailuresBrief'[1].error \in {ErrTrust, ErrBlocked}
       /\ (/\ hd[h].at = "saving" /\ hd[h].aborted
           /\ hd[h].kind = "prompt"
           /\ settings.autoRepair
           /\ hd[h].attempts < settings.maxRepairAttempts
           /\ hd'[h] # hd[h])
            => hd'[h].at = "repairing"]_vars

\* C37: a revert of a Plan that has no record in the store (it was never
\* executed, its execution captured no path, or it is not the Plan that was
\* executed) changes no file and no record, and only a warning is shown.
RevertWithoutRecordChangesNothing ==
  [][\A p \in CardPlans :
       (/\ opLog' = Append(opLog, RevertEntry(p))
        /\ stableStringify(p) \notin DOMAIN revertStore)
         => /\ fs' = fs
            /\ revertStore' = revertStore
            /\ revertNote'.type = "warning"]_vars

\* C37 witness: the write of X to a was executed live and has its record;
\* then the Plan that writes outside the workspace and to d/b was executed
\* live, capturing nothing, and reverted: d/b is still there, a still holds
\* X, and the record of the first Plan is still the only one.
RevertWithoutRecordWitness ==
  /\ opLog = <<[op |-> "run", plan |-> PlanWriteA, live |-> TRUE],
               [op |-> "run", plan |-> PlanOutsideThenNew, live |-> TRUE],
               RevertEntry(PlanOutsideThenNew)>>
  /\ revertNote.type = "warning"
  /\ <<nW, nD, nB>> \in DOMAIN fs.files
  /\ fs.files[<<nW, nA>>] = cX
  /\ DOMAIN revertStore = {stableStringify(PlanWriteA)}

\* The failure brief runPlan computed for the execution h performed last.
OwnBrief(h) ==
  IF hd[h].aborted
  THEN RuntimeBrief(IF ~withinWorkspace(WorkspaceFolder, OrElse(hd[h].plan.root, pDot)).ok
                    THEN ErrBlocked ELSE ErrTrust)
  ELSE BriefOf(hd[h].results)

\* C38: when the auto-repair loop of a prompt requests a repair Plan, the
\* failure brief it passes (lastFailuresBrief as it is when the loop test
\* has passed) is the brief of the execution this loop performed last.
RepairRequestCarriesOwnBrief ==
  [][\A h \in Handlers :
       (/\ hd[h].kind = "prompt"
        /\ hd[h].at = "saving"
        /\ hd'[h].at = "repairing")
         => lastFailuresBrief = OwnBrief(h)]_vars

====
